---------------------------- MODULE Spec2Model ----------------------------
(***************************************************************************)
(* Bamboo Engine: the Vulkan bring-up and its utilities.                   *)
(*                                                                         *)
(*  - bbge::vulkan_device: physical device selection and logical device    *)
(*    creation (Spec, SpecScore);                                          *)
(*  - bbge::vulkan_instance: construction and destruction (SpecInstance);  *)
(*  - vulkan_utils' stringification helpers, vulkan_error and the debug    *)
(*    callback (SpecDiagnostics);                                          *)
(*  - vulkan_utils' count-then-fetch queries (SpecQuery);                  *)
(*  - bbge::result (SpecResult) and bbge::version (SpecVersion);           *)
(*  - the client's startup sequence in main (SpecStartup) and the          *)
(*    ownership of the driver handles (SpecOwnership);                     *)
(*  - the swap chain's sharing-mode and extent policies (SpecSwapChain);   *)
(*  - the two driver calls of a count-then-fetch query (SpecFetch);        *)
(*  - bbge::vulkan_pipeline: construction and destruction (SpecPipeline).  *)
(*                                                                         *)
(* The graphics driver and the windowing library are external              *)
(* collaborators: their answers (enumerations, queue families, surface     *)
(* support, extensions, properties, the statuses of the creation calls)    *)
(* are inputs, drawn from bounded sets.  The engine's code is translated   *)
(* operation by operation.                                                 *)
(***************************************************************************)
EXTENDS Integers, Sequences, FiniteSets, TLC

VARIABLES
    drv,        \* the driver's answers: [enumStatus, devices]
    ndebug,     \* TRUE in a build with NDEBUG defined (release)
    path,       \* the vulkan_device constructor that runs and its VkPhysicalDevice argument
    pc,         \* position of the construction
    selectRes,  \* what default_selection_strategy::select produced
    kept,       \* select's local vector `devices` after the erase(remove_if)
    dev,        \* the vulkan_device members [m_physical_device, m_device, m_queue_handles]
    indices,    \* create_device's local q_fam_indices, once resolved
    createInfo, \* the VkDeviceCreateInfo handed to vkCreateDevice
    calls,      \* driver calls made that create, fetch or destroy a handle
    exception,  \* the exception that left the constructor
    scores,     \* score_device's results, when it is applied on its own
    inst,       \* the vulkan_instance member m_instance
    log,        \* what was written to the logging collaborator (spdlog)
    arg,        \* the argument of a utility function that is applied on its own
    ret         \* that function's outcome

vars == <<drv, ndebug, path, pc, selectRes, kept, dev, indices, createInfo,
          calls, exception, scores, inst, log, arg, ret>>

\* the variables that device selection and device creation leave alone
others == <<inst, log, arg, ret>>

-----------------------------------------------------------------------------
(* Bounds of the model.                                                    *)

\* Longest enumeration of physical devices with more than one device.
MaxDevices == 2

\* Most queue families a single enumerated device reports.
MaxFamilies == 2

-----------------------------------------------------------------------------
(* 32-bit machine integers.  TLC's integers are themselves 32-bit, so a    *)
(* uint32_t / int is kept as two 16-bit limbs <<hi, lo>>: the value is     *)
(* hi * 65536 + lo, read as unsigned (uint32_t) or two's complement (int). *)

Limb == 2^16

U32(n) == <<n \div Limb, n % Limb>>

\* unsigned addition, modulo 2^32
AddU32(a, b) ==
    LET lo == a[2] + b[2]
        hi == a[1] + b[1] + (lo \div Limb)
    IN  <<hi % Limb, lo % Limb>>

ULess(a, b) == a[1] < b[1] \/ (a[1] = b[1] /\ a[2] < b[2])

\* the high limb of an int, as a signed quantity
SignedHi(a) == IF a[1] >= Limb \div 2 THEN a[1] - Limb ELSE a[1]

\* operator< on int
IntLess(a, b) ==
    SignedHi(a) < SignedHi(b) \/ (SignedHi(a) = SignedHi(b) /\ a[2] < b[2])

\* std::numeric_limits<uint32_t>::max()
UINT32_MAX == <<Limb - 1, Limb - 1>>

Range(s) == {s[i] : i \in 1..Len(s)}

SeqsUpTo(S, n) == UNION {[1..k -> S] : k \in 0..n}

-----------------------------------------------------------------------------
(* The driver's answers.                                                   *)

VK_SUCCESS == "VK_SUCCESS"

\* vkEnumeratePhysicalDevices: the statuses of the count call and of the
\* fetch call (the fetch call is made only when the count call succeeded).
EnumStatuses ==
    { <<VK_SUCCESS, VK_SUCCESS>>,
      <<VK_SUCCESS, "VK_INCOMPLETE">>,
      <<VK_SUCCESS, "VK_ERROR_OUT_OF_HOST_MEMORY">>,
      <<"VK_ERROR_INITIALIZATION_FAILED">> }

\* VkQueueFamilyProperties, with the answer vkGetPhysicalDeviceSurfaceSupportKHR
\* gives for the family and the surface.
QueueFamilies ==
    [queueFlags : {{"GRAPHICS", "COMPUTE"}, {"COMPUTE"}}, present : BOOLEAN]

GraphicsPresentFamily == [queueFlags |-> {"GRAPHICS", "COMPUTE"}, present |-> TRUE]
GraphicsOnlyFamily    == [queueFlags |-> {"GRAPHICS", "COMPUTE"}, present |-> FALSE]
PresentOnlyFamily     == [queueFlags |-> {"COMPUTE"}, present |-> TRUE]

VK_KHR_SWAPCHAIN_EXTENSION_NAME == "VK_KHR_swapchain"

\* vkEnumerateDeviceExtensionProperties: statuses of the two calls and the list.
ExtensionAnswers ==
    [status : {<<VK_SUCCESS, VK_SUCCESS>>},
     list   : { <<>>,
                <<VK_KHR_SWAPCHAIN_EXTENSION_NAME>>,
                <<"VK_KHR_maintenance1">>,
                <<"VK_KHR_maintenance1", VK_KHR_SWAPCHAIN_EXTENSION_NAME>> }]
    \cup
    [status : {<<"VK_ERROR_OUT_OF_HOST_MEMORY">>, <<VK_SUCCESS, "VK_INCOMPLETE">>},
     list   : {<<>>}]

\* How many surface formats and present modes the surface reports for the device.
SurfaceAnswers == [formats : 0..1, presentModes : 0..1]

\* VkPhysicalDeviceProperties: deviceType and limits.maxImageDimension2D.
PropertyAnswers ==
    { [deviceType |-> "DISCRETE_GPU",   maxImageDimension2D |-> U32(4096)],
      [deviceType |-> "DISCRETE_GPU",   maxImageDimension2D |-> U32(16384)],
      [deviceType |-> "INTEGRATED_GPU", maxImageDimension2D |-> U32(4096)],
      [deviceType |-> "INTEGRATED_GPU", maxImageDimension2D |-> U32(14096)] }

PhysicalDevice(fams, ext, surf, pr) ==
    [queueFamilies |-> fams, ext |-> ext, surface |-> surf, properties |-> pr]

\* Every physical device with at most MaxFamilies queue families.
AllPhysicalDevices ==
    { PhysicalDevice(f, e, s, p) :
        f \in SeqsUpTo(QueueFamilies, MaxFamilies), e \in ExtensionAnswers,
        s \in SurfaceAnswers, p \in PropertyAnswers }

\* A device that meets every criterion, and the ways a device differs from
\* it in one respect: these make up the enumerations of several devices.
ReferenceDevice ==
    PhysicalDevice(<<GraphicsPresentFamily>>,
                   [status |-> <<VK_SUCCESS, VK_SUCCESS>>,
                    list |-> <<VK_KHR_SWAPCHAIN_EXTENSION_NAME>>],
                   [formats |-> 1, presentModes |-> 1],
                   [deviceType |-> "DISCRETE_GPU", maxImageDimension2D |-> U32(4096)])

FamilyLayouts ==
    { <<>>, <<GraphicsOnlyFamily>>, <<PresentOnlyFamily>>,
      <<GraphicsOnlyFamily, PresentOnlyFamily>>,
      <<PresentOnlyFamily, GraphicsOnlyFamily>> }

DeviceVariants ==
    {ReferenceDevice}
    \cup {[ReferenceDevice EXCEPT !.queueFamilies = f] : f \in FamilyLayouts}
    \cup {[ReferenceDevice EXCEPT !.ext = e] : e \in ExtensionAnswers}
    \cup {[ReferenceDevice EXCEPT !.surface = s] : s \in SurfaceAnswers}
    \cup {[ReferenceDevice EXCEPT !.properties = p] : p \in PropertyAnswers}

\* What vkEnumeratePhysicalDevices can list: nothing, any one device, or up
\* to MaxDevices device variants.
DeviceLists ==
    {<<d>> : d \in AllPhysicalDevices} \cup SeqsUpTo(DeviceVariants, MaxDevices)

-----------------------------------------------------------------------------
(* bbge::result<T, E> values, and exceptions.                              *)

Ok(v)  == [kind |-> "ok", value |-> v]
Err(e) == [kind |-> "err", error |-> e]

\* vulkan_error(msg, res): a std::runtime_error that carries the status
vulkan_error(msg, res) == [type |-> "vulkan_error", what |-> msg, status |-> res]

runtime_error(msg) == [type |-> "runtime_error", what |-> msg]

logic_error(msg) == [type |-> "logic_error", what |-> msg]

\* a function's outcome: it returned a value, or an exception left it
Returned(v) == [threw |-> FALSE, value |-> v]
Threw(e)    == [threw |-> TRUE, exception |-> e]

NoException == [type |-> "none"]

-----------------------------------------------------------------------------
(* vulkan_utils: the count-then-fetch queries.                             *)

\* The two-call protocol: an error carrying the first non-success status,
\* the fetched sequence when both calls succeeded.
\* a count-then-fetch that takes what an incomplete fetch wrote as the answer
CountThenFetchPartial(status, list, msg) ==
    IF status[1] # VK_SUCCESS THEN Err(vulkan_error(msg, status[1]))
    ELSE IF status[2] \notin {VK_SUCCESS, "VK_INCOMPLETE"}
    THEN Err(vulkan_error(msg, status[2]))
    ELSE Ok(list)

CountThenFetch(status, list, msg) ==
    IF status[1] # VK_SUCCESS THEN Err(vulkan_error(msg, status[1]))
    ELSE IF status[2] # VK_SUCCESS THEN Err(vulkan_error(msg, status[2]))
    ELSE Ok(list)

\* the handles are the positions in the driver's enumeration
query_physical_devices(d) ==
    CountThenFetch(d.enumStatus, [i \in 1..Len(d.devices) |-> i],
                   "Failed to query physical devices")

query_queue_families(d, h) == d.devices[h].queueFamilies

query_available_device_extensions(d, h) ==
    CountThenFetch(d.devices[h].ext.status, d.devices[h].ext.list,
                   "Failed to query supported extensions")

\* vkGetPhysicalDeviceSurfaceSupportKHR(dev, idx, surface, &supported);
\* idx counts from 0
SurfaceSupport(d, h, idx) == d.devices[h].queueFamilies[idx + 1].present

-----------------------------------------------------------------------------
(* vulkan_device::default_selection_strategy                               *)

required_extensions == <<VK_KHR_SWAPCHAIN_EXTENSION_NAME>>

has_graphics_queue_family(qf) == "GRAPHICS" \in qf.queueFlags

\* the presentation loop of is_device_suitable: `supported` after the loop
\* that starts at family index idx
RECURSIVE PresentationLoop(_, _, _, _)
PresentationLoop(d, h, n, idx) ==
    IF idx >= n THEN FALSE
    ELSE IF SurfaceSupport(d, h, idx) THEN TRUE
    ELSE PresentationLoop(d, h, n, idx + 1)

\* std::find_if over the extension list with strcmp(required, name) == 0
RECURSIVE FindExtension(_, _, _)
FindExtension(exts, required, i) ==
    IF i > Len(exts) THEN 0
    ELSE IF exts[i] = required THEN i
    ELSE FindExtension(exts, required, i + 1)

\* the loop over required_extensions, from position k
RECURSIVE AllRequiredFound(_, _)
AllRequiredFound(exts, k) ==
    IF k > Len(required_extensions) THEN TRUE
    ELSE IF FindExtension(exts, required_extensions[k], 1) = 0 THEN FALSE
    ELSE AllRequiredFound(exts, k + 1)

\* Variant of is_device_suitable without the presentation loop (what the
\* filter would be if it forgot the surface): C2 must tell it apart.
IsDeviceSuitableNoPresentation(d, h) ==
    LET queue_families == query_queue_families(d, h)
        extensions_res == query_available_device_extensions(d, h)
    IN  IF \A i \in 1..Len(queue_families) :
               ~has_graphics_queue_family(queue_families[i])
        THEN Returned(FALSE)
        ELSE IF extensions_res.kind = "err"
        THEN Threw(extensions_res.error)
        ELSE Returned(AllRequiredFound(extensions_res.value, 1))

\* Variant of is_device_suitable without the loop over required_extensions
\* (a filter that trusts every device to support them): C26 must tell it
\* apart.
IsDeviceSuitableNoExtensions(d, h) ==
    LET queue_families == query_queue_families(d, h)
    IN  IF \A i \in 1..Len(queue_families) :
               ~has_graphics_queue_family(queue_families[i])
        THEN Returned(FALSE)
        ELSE Returned(PresentationLoop(d, h, Len(queue_families), 0))

is_device_suitable(d, h) ==
    LET queue_families == query_queue_families(d, h)
        extensions_res == query_available_device_extensions(d, h)
    IN  IF \A i \in 1..Len(queue_families) :
               ~has_graphics_queue_family(queue_families[i])
        THEN Returned(FALSE)
        ELSE IF ~PresentationLoop(d, h, Len(queue_families), 0)
        THEN Returned(FALSE)
        ELSE IF extensions_res.kind = "err"
        THEN Threw(extensions_res.error)            \* or_throw()
        ELSE Returned(AllRequiredFound(extensions_res.value, 1))

DiscreteBonus == 10000

score_device(d, h) ==
    LET properties == d.devices[h].properties
        bonus == IF properties.deviceType = "DISCRETE_GPU"
                 THEN U32(DiscreteBonus) ELSE U32(0)
    IN  \* int + uint32_t is computed as uint32_t and converted back to int
        AddU32(bonus, properties.maxImageDimension2D)

\* devices.erase(std::remove_if(..., is_device_unsuitable), devices.end()):
\* the predicate is applied to each device once, in order; the devices it
\* rejects are dropped and the order of the others is kept.
RECURSIVE RemoveUnsuitable(_, _, _)
RemoveUnsuitable(d, devices, i) ==
    IF i > Len(devices) THEN Returned(<<>>)
    ELSE LET s == is_device_suitable(d, devices[i])
         IN  IF s.threw THEN s
             ELSE LET rest == RemoveUnsuitable(d, devices, i + 1)
                  IN  IF rest.threw THEN rest
                      ELSE IF s.value THEN Returned(<<devices[i]>> \o rest.value)
                      ELSE rest

\* std::max_element(first, last, comp) with comp(a, b) = a.first < b.first:
\* the position of the first element that no later element exceeds
RECURSIVE MaxElementFrom(_, _, _)
MaxElementFrom(sc, largest, i) ==
    IF i > Len(sc) THEN largest
    ELSE IF IntLess(sc[largest][1], sc[i][1])
         THEN MaxElementFrom(sc, i, i + 1)
         ELSE MaxElementFrom(sc, largest, i + 1)

\* Variant of max_element that keeps the last maximal element (comp written
\* as <=): C1 must tell it apart.
RECURSIVE MaxElementLastFrom(_, _, _)
MaxElementLastFrom(sc, largest, i) ==
    IF i > Len(sc) THEN largest
    ELSE IF ~IntLess(sc[i][1], sc[largest][1])
         THEN MaxElementLastFrom(sc, i, i + 1)
         ELSE MaxElementLastFrom(sc, largest, i + 1)

MaxElementLast(sc) == MaxElementLastFrom(sc, 1, 2)

max_element(sc) == MaxElementFrom(sc, 1, 2)

\* What select leaves behind: its outcome and its local vector `devices`.
SelectOutcome(outcome, devices) == [outcome |-> outcome, devices |-> devices]

select(d) ==
    LET devices_res == query_physical_devices(d)
    IN  IF devices_res.kind = "err"
        THEN SelectOutcome(Returned(Err(devices_res.error)), <<>>)
        ELSE IF devices_res.value = <<>>
        THEN SelectOutcome(Returned(Err(runtime_error("No devices connected."))), <<>>)
        ELSE LET filtered == RemoveUnsuitable(d, devices_res.value, 1)
             IN  IF filtered.threw THEN SelectOutcome(filtered, <<>>)
                 ELSE IF filtered.value = <<>>
                 THEN SelectOutcome(
                          Returned(Err(runtime_error("No devices are suitable."))), <<>>)
                 ELSE LET devices == filtered.value
                          sc == [i \in 1..Len(devices) |->
                                    <<score_device(d, devices[i]), devices[i]>>]
                      IN  SelectOutcome(Returned(Ok(sc[max_element(sc)][2])), devices)

-----------------------------------------------------------------------------
(* vulkan_device: logical device creation                                  *)

\* sizeof(const char*) of the build
SizeofPointer == 8

\* sizeof(required_extensions): the size of the array in bytes
SizeofRequiredExtensions == Len(required_extensions) * SizeofPointer

default_queue_priority == 1

\* std::find_if(queue_families, has_graphics_queue_family), as a position
\* counted from 0; n when there is none
RECURSIVE FindGraphics(_, _)
FindGraphics(queue_families, idx) ==
    IF idx >= Len(queue_families) THEN Len(queue_families)
    ELSE IF has_graphics_queue_family(queue_families[idx + 1]) THEN idx
    ELSE FindGraphics(queue_families, idx + 1)

\* the presentation loop: the first supported family index, or the value
\* family_indices.presentation was initialised with
RECURSIVE FindPresentation(_, _, _, _)
FindPresentation(d, h, n, idx) ==
    IF idx >= n THEN UINT32_MAX
    ELSE IF SurfaceSupport(d, h, idx) THEN U32(idx)
    ELSE FindPresentation(d, h, n, idx + 1)

get_required_queue_family_indices(d, h) ==
    LET queue_families == query_queue_families(d, h)
        graphics_it == FindGraphics(queue_families, 0)
    IN  IF graphics_it = Len(queue_families)
        THEN Threw(logic_error(
                 "The device selection strategy selected an unsuitable device."))
        ELSE Returned([graphics |-> U32(graphics_it),
                       presentation |->
                           FindPresentation(d, h, Len(queue_families), 0)])

\* Variant of QueueFamilyIndexSet that keeps both indices even when they are
\* equal (a vector in place of the set): C8 must tell it apart.
QueueFamilyIndexList(ix) == <<ix.graphics, ix.presentation>>

\* std::set<uint32_t>{graphics, presentation}, iterated in ascending order
QueueFamilyIndexSet(ix) ==
    IF ix.graphics = ix.presentation THEN <<ix.graphics>>
    ELSE IF ULess(ix.graphics, ix.presentation)
         THEN <<ix.graphics, ix.presentation>>
         ELSE <<ix.presentation, ix.graphics>>

\* one VkDeviceQueueCreateInfo per element of the set
QueueCreateInfos(ix) ==
    LET set == QueueFamilyIndexSet(ix)
    IN  [i \in 1..Len(set) |->
            [queueFamilyIndex |-> set[i], queueCount |-> 1,
             queuePriority |-> default_queue_priority]]

\* The pointer-sized word at required_extensions + offset: an element of the
\* array, or whatever lies behind it.
ReadRequiredExtension(offset) ==
    IF offset < Len(required_extensions)
    THEN [from |-> "required_extensions", offset |-> offset,
          name |-> required_extensions[offset + 1]]
    ELSE [from |-> "out_of_bounds", offset |-> offset, name |-> "indeterminate"]

\* std::vector<const char*> exts(sizeof(required_extensions));
\* std::copy(required_extensions, required_extensions + sizeof(...), exts.begin())
CopyRequiredExtensions ==
    [i \in 1..SizeofRequiredExtensions |-> ReadRequiredExtension(i - 1)]

get_extensions(d, h, release) ==
    LET extensions == query_available_device_extensions(d, h)
    IN  IF release THEN Returned(CopyRequiredExtensions)
        ELSE IF Len(required_extensions) > 0 /\ extensions.kind = "err"
        THEN Threw(extensions.error)                \* or_throw()
        ELSE IF ~AllRequiredFound(extensions.value, 1)
        THEN Threw(logic_error(
                 "The device selection strategy selected an unsuitable device. Not all required extensions are supported."))
        ELSE Returned(CopyRequiredExtensions)

\* create_device up to the vkCreateDevice call: the create info, or the
\* exception that left it before the call
PrepareCreateInfo(d, h, release) ==
    LET q_fam_indices == get_required_queue_family_indices(d, h)
        extensions == get_extensions(d, h, release)
    IN  IF q_fam_indices.threw THEN q_fam_indices
        ELSE IF extensions.threw THEN extensions
        ELSE Returned([indices |-> q_fam_indices.value,
                       info |-> [physicalDevice |-> h,
                                 queueCreateInfos |->
                                     QueueCreateInfos(q_fam_indices.value),
                                 enabledExtensionNames |-> extensions.value]])

\* Variant of GetDeviceQueueCalls that fetches the presentation queue at the
\* graphics family: C10 must tell it apart.
GetDeviceQueueCallsGraphicsTwice(device, ix) ==
    << [fn |-> "vkGetDeviceQueue", device |-> device,
        queueFamilyIndex |-> ix.graphics, queueIndex |-> 0],
       [fn |-> "vkGetDeviceQueue", device |-> device,
        queueFamilyIndex |-> ix.graphics, queueIndex |-> 0] >>

\* get_queue_handles: the two vkGetDeviceQueue calls
GetDeviceQueueCalls(device, ix) ==
    << [fn |-> "vkGetDeviceQueue", device |-> device,
        queueFamilyIndex |-> ix.graphics, queueIndex |-> 0],
       [fn |-> "vkGetDeviceQueue", device |-> device,
        queueFamilyIndex |-> ix.presentation, queueIndex |-> 0] >>

\* a VkQueue handle is known by the device, family and slot it was fetched at
get_queue_handles(device, ix) ==
    LET c == GetDeviceQueueCalls(device, ix)
    IN  [graphics |-> <<c[1].device, c[1].queueFamilyIndex, c[1].queueIndex>>,
         presentation |-> <<c[2].device, c[2].queueFamilyIndex, c[2].queueIndex>>]

-----------------------------------------------------------------------------
(* The construction of a vulkan_device, and its destruction.               *)

NotCalled == Returned([kind |-> "none"])

NullQueues == [graphics |-> <<>>, presentation |-> <<>>]

\* the member initialisers: m_device(), m_queue_handles()
NewDevice(physical) ==
    [m_physical_device |-> physical, m_device |-> 0, m_queue_handles |-> NullQueues]

\* queue_family_indices' default member initialisers
UnresolvedIndices == [graphics |-> UINT32_MAX, presentation |-> UINT32_MAX]

NoCreateInfo ==
    [physicalDevice |-> 0, queueCreateInfos |-> <<>>, enabledExtensionNames |-> <<>>]

\* the VkDevice handle the driver hands out
DeviceHandle == 1

\* what vkCreateDevice may return
CreateStatuses ==
    {VK_SUCCESS, "VK_ERROR_INITIALIZATION_FAILED", "VK_ERROR_EXTENSION_NOT_PRESENT"}

\* nothing passed, nothing produced
NoValue == [kind |-> "none"]

Idle ==
    /\ selectRes = NotCalled
    /\ kept = <<>>
    /\ indices = UnresolvedIndices
    /\ createInfo = NoCreateInfo
    /\ calls = <<>>
    /\ exception = NoException
    /\ scores = <<>>
    /\ inst = 0
    /\ log = <<>>
    /\ arg = NoValue
    /\ ret = NoValue

Init ==
    /\ ndebug \in BOOLEAN
    /\ pc = "start"
    /\ \/ /\ drv \in [enumStatus : EnumStatuses, devices : DeviceLists]
          /\ path = [ctor |-> "strategy", physical |-> 0]
       \/ /\ drv \in [enumStatus : {<<VK_SUCCESS, VK_SUCCESS>>},
                      devices : DeviceLists \ {<<>>}]
          /\ \E h \in 1..MaxDevices :
                /\ h <= Len(drv.devices)
                /\ path = [ctor |-> "explicit", physical |-> h]
    /\ dev = NewDevice(0)
    /\ Idle

\* vulkan_device(inst, surface, strat): m_physical_device(strat.select(inst,
\* surface).or_throw()) with the default strategy
SelectPhysicalDevice ==
    /\ pc = "start"
    /\ path.ctor = "strategy"
    /\ LET s == select(drv)
       IN  /\ selectRes' = s.outcome
           /\ kept' = s.devices
           /\ IF s.outcome.threw
              THEN /\ exception' = s.outcome.exception
                   /\ pc' = "thrown"
                   /\ dev' = dev
              ELSE IF s.outcome.value.kind = "err"
              THEN /\ exception' = s.outcome.value.error     \* or_throw()
                   /\ pc' = "thrown"
                   /\ dev' = dev
              ELSE /\ exception' = exception
                   /\ pc' = "create"
                   /\ dev' = NewDevice(s.outcome.value.value)
    /\ UNCHANGED <<drv, ndebug, path, indices, createInfo, calls, scores>>
    /\ UNCHANGED others

\* vulkan_device(inst, surface, dev): m_physical_device(dev)
UseGivenPhysicalDevice ==
    /\ pc = "start"
    /\ path.ctor = "explicit"
    /\ dev' = NewDevice(path.physical)
    /\ pc' = "create"
    /\ UNCHANGED <<drv, ndebug, path, selectRes, kept, indices, createInfo,
                   calls, exception, scores>>
    /\ UNCHANGED others

\* the record of a vkCreateDevice call: whether it returned, and with what
CreateDeviceCall(returned, res) ==
    [fn |-> "vkCreateDevice", returned |-> returned, status |-> res]

\* create_device(), and the constructor's m_device = device
CreateDevice(res) ==
    /\ pc = "create"
    /\ LET prepared == PrepareCreateInfo(drv, dev.m_physical_device, ndebug)
       IN  IF prepared.threw
           THEN /\ exception' = prepared.exception
                /\ pc' = "thrown"
                /\ UNCHANGED <<dev, indices, createInfo, calls>>
           ELSE /\ createInfo' = prepared.value.info
                /\ indices' = prepared.value.indices
                /\ calls' = Append(calls, CreateDeviceCall(TRUE, res))
                /\ IF res # VK_SUCCESS
                   THEN /\ exception' =
                              vulkan_error("Failed to create logical device", res)
                        /\ pc' = "thrown"
                        /\ dev' = dev
                   ELSE /\ dev' = [dev EXCEPT !.m_device = DeviceHandle]
                        /\ pc' = "created"
                        /\ exception' = exception
    /\ UNCHANGED <<drv, ndebug, path, selectRes, kept, scores>>
    /\ UNCHANGED others

\* create_device() when the names behind the end of required_extensions are
\* not readable strings: the driver dereferences them and the process dies
\* inside vkCreateDevice.
CreateDeviceFaults ==
    /\ pc = "create"
    /\ LET prepared == PrepareCreateInfo(drv, dev.m_physical_device, ndebug)
       IN  /\ ~prepared.threw
           /\ \E e \in Range(prepared.value.info.enabledExtensionNames) :
                  e.from = "out_of_bounds"
           /\ createInfo' = prepared.value.info
           /\ indices' = prepared.value.indices
           /\ calls' = Append(calls, CreateDeviceCall(FALSE, "none"))
           /\ pc' = "crashed"
    /\ UNCHANGED <<drv, ndebug, path, selectRes, kept, dev, exception, scores>>
    /\ UNCHANGED others

\* the constructor's m_queue_handles = get_queue_handles(indices)
GetQueueHandles ==
    /\ pc = "created"
    /\ dev' = [dev EXCEPT !.m_queue_handles = get_queue_handles(dev.m_device, indices)]
    /\ calls' = calls \o GetDeviceQueueCalls(dev.m_device, indices)
    /\ pc' = "done"
    /\ UNCHANGED <<drv, ndebug, path, selectRes, kept, indices, createInfo,
                   exception, scores>>
    /\ UNCHANGED others

\* ~vulkan_device(): runs for an object whose constructor completed
DestroyDevice ==
    /\ pc = "done"
    /\ calls' = IF dev.m_device # 0
                THEN Append(calls, [fn |-> "vkDestroyDevice", device |-> dev.m_device])
                ELSE calls
    /\ pc' = "destroyed"
    /\ UNCHANGED <<drv, ndebug, path, selectRes, kept, dev, indices, createInfo,
                   exception, scores>>
    /\ UNCHANGED others

Next ==
    \/ SelectPhysicalDevice
    \/ UseGivenPhysicalDevice
    \/ \E res \in CreateStatuses : CreateDevice(res)
    \/ CreateDeviceFaults
    \/ GetQueueHandles
    \/ DestroyDevice

Spec == Init /\ [][Next]_vars

-----------------------------------------------------------------------------
(* score_device applied on its own to two devices.                         *)

DeviceTypes == {"OTHER", "INTEGRATED_GPU", "DISCRETE_GPU", "VIRTUAL_GPU", "CPU"}

\* values of limits.maxImageDimension2D across the uint32_t range
ImageDimensions ==
    { U32(0), U32(1), U32(4096), U32(16384), U32(65536),
      <<2^15 - 1, Limb - DiscreteBonus - 1>>,    \* 2^31 - 10001
      <<2^15 - 1, Limb - DiscreteBonus>>,        \* 2^31 - 10000
      <<2^15 - 1, Limb - 1>>,                    \* 2^31 - 1
      <<2^15, 0>>,                               \* 2^31
      <<Limb - 1, Limb - DiscreteBonus>>,        \* 2^32 - 10000
      UINT32_MAX }

ScoreInputs == [deviceType : DeviceTypes, maxImageDimension2D : ImageDimensions]

InitScore ==
    /\ ndebug = FALSE
    /\ pc = "score"
    /\ path = [ctor |-> "none", physical |-> 0]
    /\ \E a \in ScoreInputs, b \in ScoreInputs :
          drv = [enumStatus |-> <<VK_SUCCESS, VK_SUCCESS>>,
                 devices |-> << [ReferenceDevice EXCEPT !.properties = a],
                                [ReferenceDevice EXCEPT !.properties = b] >>]
    /\ dev = NewDevice(0)
    /\ Idle

ScoreDevices ==
    /\ pc = "score"
    /\ scores' = <<score_device(drv, 1), score_device(drv, 2)>>
    /\ pc' = "scored"
    /\ UNCHANGED <<drv, ndebug, path, selectRes, kept, dev, indices, createInfo,
                   calls, exception>>
    /\ UNCHANGED others

NextScore == ScoreDevices

SpecScore == InitScore /\ [][NextScore]_vars

-----------------------------------------------------------------------------
(* Properties of device selection.                                         *)

SelectRan == selectRes # NotCalled

SelectReturned == SelectRan /\ ~selectRes.threw

EnumerationOk == drv.enumStatus = <<VK_SUCCESS, VK_SUCCESS>>

Enumerated == 1..Len(drv.devices)

\* the three criteria, read off the driver's answers
HasGraphicsFamily(h) ==
    \E f \in Range(drv.devices[h].queueFamilies) : "GRAPHICS" \in f.queueFlags

HasPresentFamily(h) ==
    \E f \in Range(drv.devices[h].queueFamilies) : f.present

HasRequiredExtensions(h) ==
    Range(required_extensions) \subseteq Range(drv.devices[h].ext.list)

ExtensionQueryOk(h) == drv.devices[h].ext.status = <<VK_SUCCESS, VK_SUCCESS>>

Suitable(h) ==
    /\ HasGraphicsFamily(h)
    /\ HasPresentFamily(h)
    /\ ExtensionQueryOk(h)
    /\ HasRequiredExtensions(h)

SuitableDevices == {h \in Enumerated : Suitable(h)}

Score(h) == score_device(drv, h)

FailedCriteria(h) ==
    (IF HasGraphicsFamily(h) THEN 0 ELSE 1)
    + (IF HasPresentFamily(h) THEN 0 ELSE 1)
    + (IF HasRequiredExtensions(h) THEN 0 ELSE 1)

\* C2: a device that fails exactly one of the criteria (no graphics family,
\* no family presenting to the surface, a required extension missing) is
\* removed by the filter; a device that meets all three is kept.
C2_FilterExcludesSingleFailures ==
    (SelectReturned /\ EnumerationOk) =>
        \A h \in Enumerated :
            /\ FailedCriteria(h) = 1 => h \notin Range(kept)
            /\ FailedCriteria(h) = 0 => h \in Range(kept)

\* C2, its case: the filter ran over a device that only lacks presentation
\* support, which it removed, and a device that meets all criteria, which
\* it kept.
C2_Witness ==
    /\ SelectReturned
    /\ \E h \in Enumerated :
          /\ HasGraphicsFamily(h) /\ ~HasPresentFamily(h) /\ HasRequiredExtensions(h)
          /\ h \notin Range(kept)
    /\ \E h \in Enumerated : FailedCriteria(h) = 0 /\ h \in Range(kept)

\* C3: a device for which the surface reports no surface format, or no
\* present mode, is removed by the filter and never returned by select.
C3_NoFormatsOrModesExcluded ==
    SelectReturned =>
        \A h \in Range(kept) :
            /\ drv.devices[h].surface.formats > 0
            /\ drv.devices[h].surface.presentModes > 0

\* C6: select returns an error exactly when the enumeration query fails (that
\* query's error), when nothing is enumerated ("No devices connected.") or
\* when no enumerated device is suitable ("No devices are suitable."); in
\* every other case it returns a device.
C6_SelectErrorCases ==
    SelectRan =>
        /\ ~selectRes.threw
        /\ IF drv.enumStatus[1] # VK_SUCCESS
           THEN selectRes.value = Err(vulkan_error("Failed to query physical devices",
                                                   drv.enumStatus[1]))
           ELSE IF drv.enumStatus[2] # VK_SUCCESS
           THEN selectRes.value = Err(vulkan_error("Failed to query physical devices",
                                                   drv.enumStatus[2]))
           ELSE IF drv.devices = <<>>
           THEN selectRes.value = Err(runtime_error("No devices connected."))
           ELSE IF SuitableDevices = {}
           THEN selectRes.value = Err(runtime_error("No devices are suitable."))
           ELSE selectRes.value.kind = "ok"

-----------------------------------------------------------------------------
(* Properties of score_device.                                             *)

Discrete(h) == drv.devices[h].properties.deviceType = "DISCRETE_GPU"

ImageDimension(h) == drv.devices[h].properties.maxImageDimension2D

\* C4: a discrete GPU scores strictly higher than any device that is not
\* discrete, whatever the two maximum 2D image dimensions are.
C4_DiscreteOutscoresOthers ==
    pc = "scored" =>
        \A i \in {1, 2}, j \in {1, 2} :
            (Discrete(i) /\ ~Discrete(j)) => IntLess(scores[j], scores[i])

\* C5: of two devices of the same class, the one with the smaller maximum 2D
\* image dimension (compared as uint32_t) has the smaller score.
C5_ScoreMonotoneInDimension ==
    pc = "scored" =>
        \A i \in {1, 2}, j \in {1, 2} :
            (Discrete(i) = Discrete(j) /\ ULess(ImageDimension(i), ImageDimension(j)))
                => IntLess(scores[i], scores[j])

-----------------------------------------------------------------------------
(* Properties of logical device creation.                                  *)

CreateCalls == {i \in 1..Len(calls) : calls[i].fn = "vkCreateDevice"}

CreateDeviceCalled == CreateCalls # {}

CallsOf(fn) == {i \in 1..Len(calls) : calls[i].fn = fn}

\* C7: whenever vkCreateDevice is called, through either constructor,
\* neither the graphics nor the presentation index still holds
\* std::numeric_limits<uint32_t>::max().
C7_IndicesResolvedAtCreation ==
    CreateDeviceCalled =>
        /\ indices.graphics # UINT32_MAX
        /\ indices.presentation # UINT32_MAX

\* C8: the create info holds one queue-create entry per distinct index of
\* {graphics, presentation}: one when the two are equal, two when they
\* differ; each entry asks for one queue with priority 1.0 and no index
\* appears in two entries.
C8_OneQueueEntryPerDistinctFamily ==
    CreateDeviceCalled =>
        LET q == createInfo.queueCreateInfos
        IN  /\ Len(q) = (IF indices.graphics = indices.presentation THEN 1 ELSE 2)
            /\ {q[i].queueFamilyIndex : i \in 1..Len(q)}
                   = {indices.graphics, indices.presentation}
            /\ \A i \in 1..Len(q) : q[i].queueCount = 1 /\ q[i].queuePriority = 1
            /\ \A i \in 1..Len(q), j \in 1..Len(q) :
                   i # j => q[i].queueFamilyIndex # q[j].queueFamilyIndex

\* C8, its case: a device with two queue families whose second family is the
\* first to do graphics and the first to present; one entry is requested.
C8_Witness ==
    /\ CreateDeviceCalled
    /\ Len(drv.devices[dev.m_physical_device].queueFamilies) = 2
    /\ indices.graphics = U32(1)
    /\ indices.presentation = U32(1)
    /\ Len(createInfo.queueCreateInfos) = 1

\* C9: the extension list handed to vkCreateDevice has as many entries as
\* required_extensions has elements, and each entry is an element read from
\* inside that array.
C9_ExtensionListIsRequiredList ==
    CreateDeviceCalled =>
        LET e == createInfo.enabledExtensionNames
        IN  /\ Len(e) = Len(required_extensions)
            /\ \A i \in 1..Len(e) :
                   /\ e[i].from = "required_extensions"
                   /\ e[i].name \in Range(required_extensions)

\* C10: when vkCreateDevice returns a status other than VK_SUCCESS, the
\* constructor throws a vulkan_error carrying that status, no queue is
\* fetched and no device is destroyed; when it returns VK_SUCCESS and the
\* constructor has completed, the graphics and the presentation queue have
\* been fetched from the created device at slot 0 of the resolved indices.
C10_CreateFailureThrowsSuccessFetches ==
    /\ \A i \in CreateCalls :
          (calls[i].returned /\ calls[i].status # VK_SUCCESS) =>
              /\ pc = "thrown"
              /\ exception.type = "vulkan_error"
              /\ exception.status = calls[i].status
              /\ CallsOf("vkGetDeviceQueue") = {}
              /\ CallsOf("vkDestroyDevice") = {}
              /\ dev.m_device = 0
    /\ pc = "done" =>
          /\ Len(calls) = 3
          /\ calls[1] = [fn |-> "vkCreateDevice", returned |-> TRUE,
                         status |-> VK_SUCCESS]
          /\ calls[2] = [fn |-> "vkGetDeviceQueue", device |-> DeviceHandle,
                         queueFamilyIndex |-> indices.graphics, queueIndex |-> 0]
          /\ calls[3] = [fn |-> "vkGetDeviceQueue", device |-> DeviceHandle,
                         queueFamilyIndex |-> indices.presentation, queueIndex |-> 0]
          /\ dev.m_queue_handles =
                 [graphics |-> <<DeviceHandle, indices.graphics, 0>>,
                  presentation |-> <<DeviceHandle, indices.presentation, 0>>]

\* C10, its case: vkCreateDevice was called for a device the default strategy
\* selected and returned an error; the constructor has thrown.
C10_Witness ==
    /\ path.ctor = "strategy"
    /\ pc = "thrown"
    /\ \E i \in CreateCalls : calls[i].status = "VK_ERROR_INITIALIZATION_FAILED"
    /\ exception.type = "vulkan_error"

-----------------------------------------------------------------------------
(* vulkan_instance: construction and destruction.                          *)
(*                                                                         *)
(* The windowing collaborator (glfwGetRequiredInstanceExtensions) and the  *)
(* driver's instance-level enumerations are inputs.  The constructor asks  *)
(* for the available instance extensions three times (to print them, to    *)
(* check the required ones, to pick the optional ones) and for the layers  *)
(* twice; every one of these queries has a status of its own.              *)

\* Longest list of available instance extensions the driver reports.
MaxAvailable == 2

VK_KHR_SURFACE_EXTENSION_NAME == "VK_KHR_surface"

VK_KHR_XCB_SURFACE_EXTENSION_NAME == "VK_KHR_xcb_surface"

VK_EXT_DEBUG_UTILS_EXTENSION_NAME == "VK_EXT_debug_utils"

InstanceExtensionNames ==
    {VK_KHR_SURFACE_EXTENSION_NAME, VK_KHR_XCB_SURFACE_EXTENSION_NAME,
     VK_EXT_DEBUG_UTILS_EXTENSION_NAME}

\* what glfwGetRequiredInstanceExtensions hands back; NULL with a count of 0
\* when it fails
GlfwAnswers ==
    { <<>>,
      <<VK_KHR_SURFACE_EXTENSION_NAME>>,
      <<VK_KHR_SURFACE_EXTENSION_NAME, VK_KHR_XCB_SURFACE_EXTENSION_NAME>> }

\* the statuses of the count call and of the fetch call of one query
QueryStatuses ==
    { <<VK_SUCCESS, VK_SUCCESS>>,
      <<VK_SUCCESS, "VK_INCOMPLETE">>,
      <<"VK_ERROR_OUT_OF_HOST_MEMORY", VK_SUCCESS>> }

validation_layers ==
    << "VK_LAYER_KHRONOS_validation", "VK_LAYER_LUNARG_standard_validation",
       "VK_LAYER_LUNARG_core_validation", "VK_LAYER_LUNARG_parameter_validation",
       "VK_LAYER_LUNARG_object_tracker" >>

LayerAnswers == { <<>>, <<"VK_LAYER_KHRONOS_validation">> }

InstanceDrivers ==
    [ glfw        : GlfwAnswers,
      available   : SeqsUpTo(InstanceExtensionNames, MaxAvailable),
      extStatus   : [1..3 -> QueryStatuses],
      layers      : LayerAnswers,
      layerStatus : [1..2 -> {<<VK_SUCCESS, VK_SUCCESS>>,
                              <<VK_SUCCESS, "VK_INCOMPLETE">>}] ]

\* the k-th call of query_available_instance_extensions
query_available_instance_extensions(d, k) ==
    CountThenFetch(d.extStatus[k], d.available,
                   "Failed to query available instance extensions")

\* the k-th call of query_available_layers
query_available_layers(d, k) ==
    CountThenFetch(d.layerStatus[k], d.layers,
                   "Failed to query available validation layers")

\* result::log_err(): one record at level err when the result is an error
log_err(res) ==
    IF res.kind = "err" THEN <<[level |-> "err", what |-> res.error.what]>> ELSE <<>>

optional_extensions == <<VK_EXT_DEBUG_UTILS_EXTENSION_NAME>>

\* the std::find_if over the available extensions with std::strcmp
IsAvailable(available, name) == \E i \in 1..Len(available) : available[i] = name

\* a get_optional_extensions that hands back the wishlist unfiltered
GetOptionalExtensionsUnfiltered(d) == optional_extensions

get_optional_extensions(d) ==
    LET available_res == query_available_instance_extensions(d, 3)
    IN  IF available_res.kind = "err" THEN <<>>
        ELSE SelectSeq(optional_extensions,
                       LAMBDA requested : IsAvailable(available_res.value, requested))

\* the first entry of result, in its order, that is not available; 0 if none
FirstMissing(result, available) ==
    LET missing == {i \in 1..Len(result) : ~IsAvailable(available, result[i])}
    IN  IF missing = {} THEN 0
        ELSE CHOOSE i \in missing : \A j \in missing : i <= j

\* a get_required_extensions that skips the availability check
GetRequiredExtensionsUnchecked(d) == Returned(d.glfw)

get_required_extensions(d) ==
    LET result        == d.glfw
        available_res == query_available_instance_extensions(d, 2)
    IN  IF available_res.kind = "err"
        THEN Threw(available_res.error)                     \* or_throw()
        ELSE LET m == FirstMissing(result, available_res.value)
             IN  IF m # 0
                 THEN Threw(vulkan_error(<<"Required extension {} not supported",
                                           result[m]>>,
                                         "VK_ERROR_EXTENSION_NOT_PRESENT"))
                 ELSE Returned(result)

get_validation_layers(d) ==
    LET props == query_available_layers(d, 2)
    IN  IF props.kind = "err" THEN <<>>
        ELSE SelectSeq(validation_layers,
                       LAMBDA requested : IsAvailable(props.value, requested))

\* the constructor's `extensions`: the required ones joined with the optional
JoinExtensions(required, optional) == required \o optional

\* the constructor up to the vkCreateInstance call: what it logged through
\* log_err, and either the create info or the exception that left it
PrepareInstanceCreateInfo(d, release) ==
    LET printed  == log_err(query_available_instance_extensions(d, 1))
        required == get_required_extensions(d)
        optional == get_optional_extensions(d)
        logged   == printed
                    \o log_err(query_available_instance_extensions(d, 3))
                    \o log_err(query_available_layers(d, 1))
    IN  IF required.threw
        THEN [log |-> printed, outcome |-> required]
        ELSE [log |-> logged,
              outcome |-> Returned(
                 [enabledExtensionNames |-> JoinExtensions(required.value, optional),
                  enabledLayerNames |-> IF release THEN <<>>
                                        ELSE get_validation_layers(d),
                  pNext |-> IF release THEN "none"
                            ELSE "debug_messenger_all_messages"])]

\* the VkInstance handle the driver hands out
InstanceHandle == 1

NoInstanceCreateInfo ==
    [enabledExtensionNames |-> <<>>, enabledLayerNames |-> <<>>, pNext |-> "none"]

InitInstance ==
    /\ ndebug \in BOOLEAN
    /\ pc = "start"
    /\ drv \in InstanceDrivers
    /\ path = [ctor |-> "instance", physical |-> 0]
    /\ dev = NewDevice(0)
    /\ selectRes = NotCalled
    /\ kept = <<>>
    /\ indices = UnresolvedIndices
    /\ createInfo = NoInstanceCreateInfo
    /\ calls = <<>>
    /\ exception = NoException
    /\ scores = <<>>
    /\ inst = 0
    /\ log = <<>>
    /\ arg = NoValue
    /\ ret = NoValue

\* what device creation keeps, left alone by the instance
deviceVars == <<path, selectRes, kept, dev, indices, scores, arg, ret>>

\* vulkan_instance(app_name, app_version) up to the creation call
AssembleInstanceCreateInfo ==
    /\ pc = "start"
    /\ LET prepared == PrepareInstanceCreateInfo(drv, ndebug)
       IN  /\ log' = log \o prepared.log
           /\ IF prepared.outcome.threw
              THEN /\ exception' = prepared.outcome.exception
                   /\ pc' = "thrown"
                   /\ createInfo' = createInfo
              ELSE /\ createInfo' = prepared.outcome.value
                   /\ pc' = "create"
                   /\ exception' = exception
    /\ UNCHANGED <<drv, ndebug, calls, inst>>
    /\ UNCHANGED deviceVars

\* auto res = vkCreateInstance(&instance_create_info, nullptr, &m_instance)
CreateInstance(res) ==
    /\ pc = "create"
    /\ calls' = Append(calls, [fn |-> "vkCreateInstance", status |-> res,
                               info |-> createInfo])
    /\ IF res # VK_SUCCESS
       THEN /\ exception' = vulkan_error("Failed to create instance.", res)
            /\ pc' = "thrown"
            /\ inst' = inst
       ELSE /\ inst' = InstanceHandle
            /\ pc' = "created"
            /\ exception' = exception
    /\ UNCHANGED <<drv, ndebug, createInfo, log>>
    /\ UNCHANGED deviceVars

\* ~vulkan_instance(): runs for an object whose constructor completed
DestroyInstance ==
    /\ pc = "created"
    /\ calls' = Append(calls, [fn |-> "vkDestroyInstance", instance |-> inst])
    /\ pc' = "destroyed"
    /\ UNCHANGED <<drv, ndebug, createInfo, log, inst, exception>>
    /\ UNCHANGED deviceVars

InstanceCreateStatuses ==
    {VK_SUCCESS, "VK_ERROR_INCOMPATIBLE_DRIVER", "VK_ERROR_EXTENSION_NOT_PRESENT"}

NextInstance ==
    \/ AssembleInstanceCreateInfo
    \/ \E res \in InstanceCreateStatuses : CreateInstance(res)
    \/ DestroyInstance

SpecInstance == InitInstance /\ [][NextInstance]_vars

-----------------------------------------------------------------------------
(* Properties of instance construction.                                    *)

QuerySucceeded(status) == status[1] = VK_SUCCESS /\ status[2] = VK_SUCCESS

\* the extensions the windowing collaborator asked for that the driver does
\* not list
MissingRequired == Range(drv.glfw) \ Range(drv.available)

\* the availability of the required extensions could not be established
RequiredUnmet == ~QuerySucceeded(drv.extStatus[2]) \/ MissingRequired # {}

\* C11: when an extension required by the windowing collaborator is absent
\* from the available instance extensions, or the availability query of that
\* step fails, the constructor throws before vkCreateInstance is called: no
\* driver call was made, no instance handle exists, none is destroyed.
C11_MissingRequiredThrowsBeforeCreate ==
    (pc # "start" /\ RequiredUnmet) =>
        /\ pc = "thrown"
        /\ exception.type = "vulkan_error"
        /\ exception.status =
              (IF ~QuerySucceeded(drv.extStatus[2])
               THEN CHOOSE s \in Range(drv.extStatus[2]) : s # VK_SUCCESS
               ELSE "VK_ERROR_EXTENSION_NOT_PRESENT")
        /\ calls = <<>>
        /\ inst = 0

\* the constructor has thrown for a listed-by-GLFW extension that the driver
\* does not offer, although the query itself succeeded
C11_Witness ==
    /\ pc = "thrown"
    /\ QuerySucceeded(drv.extStatus[2])
    /\ VK_KHR_XCB_SURFACE_EXTENSION_NAME \in MissingRequired
    /\ VK_KHR_SURFACE_EXTENSION_NAME \in Range(drv.available)
    /\ exception.status = "VK_ERROR_EXTENSION_NOT_PRESENT"
    /\ calls = <<>>

\* the optional wishlist (the debug-utilities extension) cut down to what the
\* third availability query reported
OptionalExpected ==
    IF QuerySucceeded(drv.extStatus[3])
          /\ VK_EXT_DEBUG_UTILS_EXTENSION_NAME \in Range(drv.available)
    THEN <<VK_EXT_DEBUG_UTILS_EXTENSION_NAME>>
    ELSE <<>>

CreateInstanceCalls == SelectSeq(calls, LAMBDA c : c.fn = "vkCreateInstance")

\* C12: the optional extensions are the wishlist entries that are available,
\* in wishlist order, none when that query fails; neither case stops the
\* construction, which goes on to vkCreateInstance whenever the required
\* step passed; the list handed to vkCreateInstance is the required
\* extensions followed by the optional ones.
C12_OptionalExtensionsNeverFatal ==
    /\ (pc # "start" /\ ~RequiredUnmet) =>
          /\ Len(CreateInstanceCalls) = 1 \/ pc = "create"
          /\ createInfo.enabledExtensionNames = drv.glfw \o OptionalExpected
    /\ \A i \in 1..Len(CreateInstanceCalls) :
          CreateInstanceCalls[i].info.enabledExtensionNames
             = drv.glfw \o OptionalExpected

\* an instance was created although the optional step's query failed and
\* the debug-utilities extension was there to be had
C12_Witness ==
    /\ pc = "created"
    /\ ~QuerySucceeded(drv.extStatus[3])
    /\ VK_EXT_DEBUG_UTILS_EXTENSION_NAME \in Range(drv.available)
    /\ drv.glfw # <<>>
    /\ createInfo.enabledExtensionNames = drv.glfw
    /\ inst = InstanceHandle

-----------------------------------------------------------------------------
(* Diagnostics: vulkan_utils' stringification helpers, vulkan_error's      *)
(* message and vulkan_instance::debug_callback.  Each is applied on its    *)
(* own to one argument: arg is the call, ret its outcome, log what it      *)
(* wrote to the logging collaborator.                                      *)

invalid_argument(msg) == [type |-> "invalid_argument", what |-> msg]

\* the enumerators' values, as the Vulkan headers define them
VK_DEBUG_UTILS_MESSAGE_TYPE_GENERAL_BIT_EXT == 1
VK_DEBUG_UTILS_MESSAGE_TYPE_VALIDATION_BIT_EXT == 2
VK_DEBUG_UTILS_MESSAGE_TYPE_PERFORMANCE_BIT_EXT == 4
VK_DEBUG_UTILS_MESSAGE_SEVERITY_VERBOSE_BIT_EXT == 1
VK_DEBUG_UTILS_MESSAGE_SEVERITY_INFO_BIT_EXT == 16
VK_DEBUG_UTILS_MESSAGE_SEVERITY_WARNING_BIT_EXT == 256
VK_DEBUG_UTILS_MESSAGE_SEVERITY_ERROR_BIT_EXT == 4096
VK_PHYSICAL_DEVICE_TYPE_OTHER == 0
VK_PHYSICAL_DEVICE_TYPE_INTEGRATED_GPU == 1
VK_PHYSICAL_DEVICE_TYPE_DISCRETE_GPU == 2
VK_PHYSICAL_DEVICE_TYPE_VIRTUAL_GPU == 3
VK_PHYSICAL_DEVICE_TYPE_CPU == 4

\* every *_MAX_ENUM enumerator is 0x7FFFFFFF
MAX_ENUM == 2147483647

VK_FALSE == 0

convert_type(typ) ==
    CASE typ = VK_DEBUG_UTILS_MESSAGE_TYPE_GENERAL_BIT_EXT -> Returned("general")
      [] typ = VK_DEBUG_UTILS_MESSAGE_TYPE_VALIDATION_BIT_EXT -> Returned("validation")
      [] typ = VK_DEBUG_UTILS_MESSAGE_TYPE_PERFORMANCE_BIT_EXT -> Returned("perf")
      [] typ = MAX_ENUM ->
            Threw(invalid_argument(
               "VK_DEBUG_UTILS_MESSAGE_SEVERITY_FLAG_BITS_MAX_ENUM_EXT is not a valid severity."))
      [] OTHER -> Threw(logic_error("Unhandled switch case."))

convert_device_type(t) ==
    CASE t = VK_PHYSICAL_DEVICE_TYPE_OTHER -> Returned("other")
      [] t = VK_PHYSICAL_DEVICE_TYPE_INTEGRATED_GPU -> Returned("integrated")
      [] t = VK_PHYSICAL_DEVICE_TYPE_DISCRETE_GPU -> Returned("discrete")
      [] t = VK_PHYSICAL_DEVICE_TYPE_VIRTUAL_GPU -> Returned("virtual")
      [] t = VK_PHYSICAL_DEVICE_TYPE_CPU -> Returned("CPU")
      [] t = MAX_ENUM ->
            Threw(invalid_argument(
               "VK_PHYSICAL_DEVICE_TYPE_MAX_ENUM is not a valid device type."))
      [] OTHER -> Threw(logic_error(<<"Unhandled enum value {} at {}:{}", t>>))

\* control ran off the end of a function that returns a value: undefined
\* behaviour; the build either traps or hands back whatever the return
\* register holds
RanOffTheEnd == { [threw |-> FALSE, value |-> "indeterminate pointer"],
                  [threw |-> TRUE, exception |-> [type |-> "trap", what |-> "none"]] }

\* convert_severity's switch has no default: the set of possible outcomes
convert_severity(sev) ==
    CASE sev = VK_DEBUG_UTILS_MESSAGE_SEVERITY_VERBOSE_BIT_EXT -> {Returned("verbose")}
      [] sev = VK_DEBUG_UTILS_MESSAGE_SEVERITY_INFO_BIT_EXT -> {Returned("info")}
      [] sev = VK_DEBUG_UTILS_MESSAGE_SEVERITY_WARNING_BIT_EXT -> {Returned("warning")}
      [] sev = VK_DEBUG_UTILS_MESSAGE_SEVERITY_ERROR_BIT_EXT -> {Returned("error")}
      [] sev = MAX_ENUM ->
            {Threw(invalid_argument(
               "VK_DEBUG_UTILS_MESSAGE_SEVERITY_FLAG_BITS_MAX_ENUM_EXT is not a valid severity."))}
      [] OTHER -> RanOffTheEnd

\* vulkan_utils::result_names: VkResult value and name
result_names ==
    { <<0, "VK_SUCCESS">>, <<1, "VK_NOT_READY">>, <<2, "VK_TIMEOUT">>,
      <<3, "VK_EVENT_SET">>, <<4, "VK_EVENT_RESET">>, <<5, "VK_INCOMPLETE">>,
      <<-1, "VK_ERROR_OUT_OF_HOST_MEMORY">>,
      <<-2, "VK_ERROR_OUT_OF_DEVICE_MEMORY">>,
      <<-3, "VK_ERROR_INITIALIZATION_FAILED">>,
      <<-4, "VK_ERROR_DEVICE_LOST">>,
      <<-5, "VK_ERROR_MEMORY_MAP_FAILED">>,
      <<-6, "VK_ERROR_LAYER_NOT_PRESENT">>,
      <<-7, "VK_ERROR_EXTENSION_NOT_PRESENT">>,
      <<-8, "VK_ERROR_FEATURE_NOT_PRESENT">>,
      <<-9, "VK_ERROR_INCOMPATIBLE_DRIVER">>,
      <<-10, "VK_ERROR_TOO_MANY_OBJECTS">>,
      <<-11, "VK_ERROR_FORMAT_NOT_SUPPORTED">>,
      <<-12, "VK_ERROR_FRAGMENTED_POOL">>,
      <<-1000069000, "VK_ERROR_OUT_OF_POOL_MEMORY">>,
      <<-1000072003, "VK_ERROR_INVALID_EXTERNAL_HANDLE">>,
      <<-1000000000, "VK_ERROR_SURFACE_LOST_KHR">>,
      <<-1000000001, "VK_ERROR_NATIVE_WINDOW_IN_USE_KHR">>,
      <<1000001003, "VK_SUBOPTIMAL_KHR">>,
      <<-1000001004, "VK_ERROR_OUT_OF_DATE_KHR">>,
      <<-1000003001, "VK_ERROR_INCOMPATIBLE_DISPLAY_KHR">>,
      <<-1000011001, "VK_ERROR_VALIDATION_FAILED_EXT">>,
      <<-1000012000, "VK_ERROR_INVALID_SHADER_NV">>,
      <<-1000161000, "VK_ERROR_FRAGMENTATION_EXT">>,
      <<-1000174001, "VK_ERROR_NOT_PERMITTED_EXT">> }

\* vulkan_utils::format_names: the head of the table (the entries for the
\* formats 0..15); the remaining entries have the same shape
format_names ==
    { <<0, "VK_FORMAT_UNDEFINED">>, <<1, "VK_FORMAT_R4G4_UNORM_PACK8">>,
      <<2, "VK_FORMAT_R4G4B4A4_UNORM_PACK16">>,
      <<3, "VK_FORMAT_B4G4R4A4_UNORM_PACK16">>,
      <<4, "VK_FORMAT_R5G6B5_UNORM_PACK16">>,
      <<5, "VK_FORMAT_B5G6R5_UNORM_PACK16">>,
      <<6, "VK_FORMAT_R5G5B5A1_UNORM_PACK16">>,
      <<7, "VK_FORMAT_B5G5R5A1_UNORM_PACK16">>,
      <<8, "VK_FORMAT_A1R5G5B5_UNORM_PACK16">>,
      <<9, "VK_FORMAT_R8_UNORM">>, <<10, "VK_FORMAT_R8_SNORM">>,
      <<11, "VK_FORMAT_R8_USCALED">>, <<12, "VK_FORMAT_R8_SSCALED">>,
      <<13, "VK_FORMAT_R8_UINT">>, <<14, "VK_FORMAT_R8_SINT">>,
      <<15, "VK_FORMAT_R8_SRGB">> }

invalid_name == "UNKNOWN RESULT TYPE"

\* a lookup with map::at, which throws for a key that is not in the table
ToStringAt(names, code) ==
    LET it == {e \in names : e[1] = code}
    IN  IF it = {} THEN Threw([type |-> "out_of_range", what |-> "at"])
        ELSE Returned((CHOOSE e \in it : TRUE)[2])

\* to_string(VkResult) with names = result_names, to_string(VkFormat) with
\* names = format_names: find, and the sentinel at end()
to_string(names, code) ==
    LET it == {e \in names : e[1] = code}
    IN  IF it = {} THEN Returned(invalid_name)
        ELSE Returned((CHOOSE e \in it : TRUE)[2])

\* vulkan_error's constructor: the what() of the std::runtime_error base is
\* formatted from the message and the status' name
vulkan_error_what(msg, res) ==
    LET name == to_string(result_names, res)
    IN  IF name.threw THEN name
        ELSE Returned(<<"[vulkan] {} (err={}).", msg, name.value>>)

\* the SPDLOG_<LEVEL> macros: a record at that level, nothing when the level
\* is below SPDLOG_ACTIVE_LEVEL (trace in a build with NDEBUG)
SPDLOG(level, release, type, message) ==
    IF level = "trace" /\ release THEN <<>>
    ELSE <<[level |-> level, what |-> <<"[VkVal] [{}]: {}.", type, message>>]>>

debug_callback(message_severity, message_type, message, release) ==
    LET type == convert_type(message_type)
    IN  IF type.threw THEN [log |-> <<>>, outcome |-> type]
        ELSE [log |->
                CASE message_severity = VK_DEBUG_UTILS_MESSAGE_SEVERITY_VERBOSE_BIT_EXT ->
                        SPDLOG("trace", release, type.value, message)
                  [] message_severity = VK_DEBUG_UTILS_MESSAGE_SEVERITY_INFO_BIT_EXT ->
                        SPDLOG("debug", release, type.value, message)
                  [] message_severity = VK_DEBUG_UTILS_MESSAGE_SEVERITY_WARNING_BIT_EXT ->
                        SPDLOG("warn", release, type.value, message)
                  [] message_severity = VK_DEBUG_UTILS_MESSAGE_SEVERITY_ERROR_BIT_EXT ->
                        SPDLOG("error", release, type.value, message)
                  [] OTHER -> SPDLOG("debug", release, type.value, message),
              outcome |-> Returned(VK_FALSE)]

\* values a VkDebugUtilsMessageSeverityFlagBitsEXT can take: the four bits,
\* a bit that is not assigned yet, the MAX_ENUM enumerator
Severities ==
    { VK_DEBUG_UTILS_MESSAGE_SEVERITY_VERBOSE_BIT_EXT,
      VK_DEBUG_UTILS_MESSAGE_SEVERITY_INFO_BIT_EXT,
      VK_DEBUG_UTILS_MESSAGE_SEVERITY_WARNING_BIT_EXT,
      VK_DEBUG_UTILS_MESSAGE_SEVERITY_ERROR_BIT_EXT,
      2^16, MAX_ENUM }

\* values of VkDebugUtilsMessageTypeFlagsEXT: no bit, every combination of
\* the three bits, a fourth bit, MAX_ENUM
MessageTypes == 0..8 \cup {MAX_ENUM}

DeviceTypeValues == 0..5 \cup {MAX_ENUM}

\* every code of the table, and codes that are not in it (VK_ERROR_UNKNOWN,
\* VK_ERROR_FULL_SCREEN_EXCLUSIVE_MODE_LOST_EXT, unassigned values)
ResultCodes ==
    {e[1] : e \in result_names} \cup {-13, 6, -1000255000, MAX_ENUM}

\* the codes of the head of the table, and codes that no entry of the table
\* has (below 0, behind the last core format, MAX_ENUM)
FormatCodes == {e[1] : e \in format_names} \cup {-1, 185, MAX_ENUM}

DiagnosticCalls ==
    [fn : {"debug_callback"}, severity : Severities, type : MessageTypes,
     message : {"pMessage"}]
    \cup [fn : {"convert_type"}, value : MessageTypes]
    \cup [fn : {"convert_severity"}, value : Severities]
    \cup [fn : {"convert_device_type"}, value : DeviceTypeValues]
    \cup [fn : {"to_string(VkResult)", "vulkan_error"}, value : ResultCodes]
    \cup [fn : {"to_string(VkFormat)"}, value : FormatCodes]

InitDiagnostics ==
    /\ ndebug \in BOOLEAN
    /\ pc = "call"
    /\ arg \in DiagnosticCalls
    /\ ret = NoValue
    /\ log = <<>>
    /\ inst = 0
    /\ drv = NoValue
    /\ path = [ctor |-> "none", physical |-> 0]
    /\ dev = NewDevice(0)
    /\ selectRes = NotCalled
    /\ kept = <<>>
    /\ indices = UnresolvedIndices
    /\ createInfo = NoCreateInfo
    /\ calls = <<>>
    /\ exception = NoException
    /\ scores = <<>>

\* what a function applied on its own leaves alone
objectVars == <<drv, ndebug, path, selectRes, kept, dev, indices, createInfo,
                calls, exception, scores, inst, arg>>

\* the driver calls the registered callback with one message
InvokeDebugCallback ==
    /\ pc = "call"
    /\ arg.fn = "debug_callback"
    /\ LET c == debug_callback(arg.severity, arg.type, arg.message, ndebug)
       IN  /\ ret' = c.outcome
           /\ log' = log \o c.log
    /\ pc' = "returned"
    /\ UNCHANGED objectVars

ConvertType ==
    /\ pc = "call"
    /\ arg.fn = "convert_type"
    /\ ret' = convert_type(arg.value)
    /\ pc' = "returned"
    /\ UNCHANGED <<objectVars, log>>

ConvertSeverity ==
    /\ pc = "call"
    /\ arg.fn = "convert_severity"
    /\ ret' \in convert_severity(arg.value)
    /\ pc' = "returned"
    /\ UNCHANGED <<objectVars, log>>

ConvertDeviceType ==
    /\ pc = "call"
    /\ arg.fn = "convert_device_type"
    /\ ret' = convert_device_type(arg.value)
    /\ pc' = "returned"
    /\ UNCHANGED <<objectVars, log>>

ToStringResult ==
    /\ pc = "call"
    /\ arg.fn = "to_string(VkResult)"
    /\ ret' = to_string(result_names, arg.value)
    /\ pc' = "returned"
    /\ UNCHANGED <<objectVars, log>>

ToStringFormat ==
    /\ pc = "call"
    /\ arg.fn = "to_string(VkFormat)"
    /\ ret' = to_string(format_names, arg.value)
    /\ pc' = "returned"
    /\ UNCHANGED <<objectVars, log>>

\* vulkan_error(msg, res)
ConstructVulkanError ==
    /\ pc = "call"
    /\ arg.fn = "vulkan_error"
    /\ ret' = vulkan_error_what("Failed to create instance.", arg.value)
    /\ pc' = "returned"
    /\ UNCHANGED <<objectVars, log>>

NextDiagnostics ==
    \/ InvokeDebugCallback
    \/ ConvertType
    \/ ConvertSeverity
    \/ ConvertDeviceType
    \/ ToStringResult
    \/ ToStringFormat
    \/ ConstructVulkanError

SpecDiagnostics == InitDiagnostics /\ [][NextDiagnostics]_vars

-----------------------------------------------------------------------------
(* Properties of the diagnostics.                                          *)

CallbackReturned == pc = "returned" /\ arg.fn = "debug_callback"

\* C13: debug_callback returns VK_FALSE for every severity and every
\* message-type flags value, combined and unknown type bits included, and
\* never leaves by throwing.
C13_CallbackReturnsFalse ==
    CallbackReturned => ret = [threw |-> FALSE, value |-> VK_FALSE]

\* the log level the message's severity stands for
MatchingLevel(severity) ==
    CASE severity = VK_DEBUG_UTILS_MESSAGE_SEVERITY_VERBOSE_BIT_EXT -> "trace"
      [] severity = VK_DEBUG_UTILS_MESSAGE_SEVERITY_INFO_BIT_EXT -> "info"
      [] severity = VK_DEBUG_UTILS_MESSAGE_SEVERITY_WARNING_BIT_EXT -> "warn"
      [] severity = VK_DEBUG_UTILS_MESSAGE_SEVERITY_ERROR_BIT_EXT -> "error"
      [] OTHER -> "none"

\* C14: debug_callback writes each message of one of the four severities to
\* the log exactly once, at the level that matches the severity.
C14_LoggedOnceAtMatchingLevel ==
    (CallbackReturned /\ MatchingLevel(arg.severity) # "none") =>
        /\ Len(log) = 1
        /\ log[1].level = MatchingLevel(arg.severity)

NameIn(names, code) == {e[2] : e \in {x \in names : x[1] = code}}

\* C15: to_string(VkResult) and to_string(VkFormat) return the table's name
\* for a code of the table and the sentinel for every other code, and never
\* throw; constructing a vulkan_error with any status code never fails.
C15_ToStringTotal ==
    /\ (pc = "returned" /\ arg.fn = "to_string(VkResult)") =>
          /\ ~ret.threw
          /\ ret.value \in (IF NameIn(result_names, arg.value) = {}
                            THEN {"UNKNOWN RESULT TYPE"}
                            ELSE NameIn(result_names, arg.value))
    /\ (pc = "returned" /\ arg.fn = "to_string(VkFormat)") =>
          /\ ~ret.threw
          /\ ret.value \in (IF NameIn(format_names, arg.value) = {}
                            THEN {"UNKNOWN RESULT TYPE"}
                            ELSE NameIn(format_names, arg.value))
    /\ (pc = "returned" /\ arg.fn = "vulkan_error") =>
          /\ ~ret.threw
          /\ ret.value[3] \in (IF NameIn(result_names, arg.value) = {}
                               THEN {"UNKNOWN RESULT TYPE"}
                               ELSE NameIn(result_names, arg.value))

\* a vulkan_error was constructed with VK_ERROR_UNKNOWN (-13), a status the
\* table does not list, and its message carries the sentinel
C15_Witness ==
    /\ pc = "returned"
    /\ arg.fn = "vulkan_error"
    /\ arg.value = -13
    /\ NameIn(result_names, arg.value) = {}
    /\ ret = [threw |-> FALSE,
              value |-> <<"[vulkan] {} (err={}).", "Failed to create instance.",
                          "UNKNOWN RESULT TYPE">>]

\* C16: convert_severity, convert_type and convert_device_type return a
\* string for every input value and never throw or crash.
C16_ConvertersTotal ==
    (pc = "returned"
       /\ arg.fn \in {"convert_severity", "convert_type", "convert_device_type"}) =>
        /\ ~ret.threw
        /\ ret.value # "indeterminate pointer"

-----------------------------------------------------------------------------
(* vulkan_utils: each count-then-fetch query applied on its own.  arg is   *)
(* the query, the statuses of the driver's count call and fetch call, and  *)
(* what the driver wrote into the vector; ret is the result handed back.   *)

\* Longest sequence the driver writes in one fetch.
MaxElements == 2

query_surface_formats(status, formats) ==
    CountThenFetch(status, formats, "Failed to query surface formats for '{}'")

query_present_modes(status, modes) ==
    CountThenFetch(status, modes, "Failed to query present modes for '{}'")

query_swapchain_images(status, images) ==
    CountThenFetch(status, images, "Failed to query swap chain images")

DriverStatuses ==
    {VK_SUCCESS, "VK_INCOMPLETE", "VK_ERROR_OUT_OF_HOST_MEMORY",
     "VK_ERROR_SURFACE_LOST_KHR"}

QueryNames ==
    {"query_available_instance_extensions", "query_available_device_extensions",
     "query_available_layers", "query_physical_devices", "query_surface_formats",
     "query_present_modes", "query_swapchain_images"}

QueryCalls ==
    [fn : QueryNames, status : DriverStatuses \X DriverStatuses,
     list : SeqsUpTo({"x", "y"}, MaxElements)]

InitQuery ==
    /\ ndebug = FALSE
    /\ pc = "call"
    /\ arg \in QueryCalls
    /\ ret = NoValue
    /\ log = <<>>
    /\ inst = 0
    /\ drv = NoValue
    /\ path = [ctor |-> "none", physical |-> 0]
    /\ dev = NewDevice(0)
    /\ selectRes = NotCalled
    /\ kept = <<>>
    /\ indices = UnresolvedIndices
    /\ createInfo = NoCreateInfo
    /\ calls = <<>>
    /\ exception = NoException
    /\ scores = <<>>

\* a device as far as its extension query goes
ExtensionsOnly(status, list) ==
    [ReferenceDevice EXCEPT !.ext = [status |-> status, list |-> list]]

QueryAvailableInstanceExtensions ==
    /\ pc = "call"
    /\ arg.fn = "query_available_instance_extensions"
    /\ ret' = query_available_instance_extensions(
                 [extStatus |-> <<arg.status>>, available |-> arg.list], 1)
    /\ pc' = "returned"
    /\ UNCHANGED <<objectVars, log>>

QueryAvailableDeviceExtensions ==
    /\ pc = "call"
    /\ arg.fn = "query_available_device_extensions"
    /\ ret' = query_available_device_extensions(
                 [devices |-> <<ExtensionsOnly(arg.status, arg.list)>>], 1)
    /\ pc' = "returned"
    /\ UNCHANGED <<objectVars, log>>

QueryAvailableLayers ==
    /\ pc = "call"
    /\ arg.fn = "query_available_layers"
    /\ ret' = query_available_layers(
                 [layerStatus |-> <<arg.status>>, layers |-> arg.list], 1)
    /\ pc' = "returned"
    /\ UNCHANGED <<objectVars, log>>

QueryPhysicalDevices ==
    /\ pc = "call"
    /\ arg.fn = "query_physical_devices"
    /\ ret' = query_physical_devices(
                 [enumStatus |-> arg.status, devices |-> arg.list])
    /\ pc' = "returned"
    /\ UNCHANGED <<objectVars, log>>

QuerySurfaceFormats ==
    /\ pc = "call"
    /\ arg.fn = "query_surface_formats"
    /\ ret' = query_surface_formats(arg.status, arg.list)
    /\ pc' = "returned"
    /\ UNCHANGED <<objectVars, log>>

QueryPresentModes ==
    /\ pc = "call"
    /\ arg.fn = "query_present_modes"
    /\ ret' = query_present_modes(arg.status, arg.list)
    /\ pc' = "returned"
    /\ UNCHANGED <<objectVars, log>>

QuerySwapchainImages ==
    /\ pc = "call"
    /\ arg.fn = "query_swapchain_images"
    /\ ret' = query_swapchain_images(arg.status, arg.list)
    /\ pc' = "returned"
    /\ UNCHANGED <<objectVars, log>>

NextQuery ==
    \/ QueryAvailableInstanceExtensions
    \/ QueryAvailableDeviceExtensions
    \/ QueryAvailableLayers
    \/ QueryPhysicalDevices
    \/ QuerySurfaceFormats
    \/ QueryPresentModes
    \/ QuerySwapchainImages

SpecQuery == InitQuery /\ [][NextQuery]_vars

\* the status of the call that stopped the query: the count call's if it is
\* not a success, else the fetch call's
FailingStatus(status) == IF status[1] # VK_SUCCESS THEN status[1] ELSE status[2]

\* C17: a count-then-fetch query whose count call or fetch call returns a
\* status other than VK_SUCCESS (VK_INCOMPLETE included) returns an error
\* that carries that status and no sequence; it returns a sequence only
\* when both calls succeeded.
C17_QueryFailsOnAnyNonSuccess ==
    pc = "returned" =>
        IF arg.status = <<VK_SUCCESS, VK_SUCCESS>>
        THEN /\ ret.kind = "ok"
             /\ Len(ret.value) = Len(arg.list)
        ELSE /\ ret.kind = "err"
             /\ DOMAIN ret = {"kind", "error"}
             /\ ret.error.type = "vulkan_error"
             /\ ret.error.status = FailingStatus(arg.status)

\* the fetch of the surface formats was incomplete after the driver had
\* written two formats, and the query handed back the error
C17_Witness ==
    /\ pc = "returned"
    /\ arg.fn = "query_surface_formats"
    /\ arg.status = <<VK_SUCCESS, "VK_INCOMPLETE">>
    /\ Len(arg.list) = 2
    /\ ret.kind = "err"
    /\ ret.error.status = "VK_INCOMPLETE"

-----------------------------------------------------------------------------
(* bbge::result<Result, Error>: construction and the accessors.            *)
(*                                                                         *)
(* m_variant is a std::variant<ok_type, err_type>; Ok(v) and Err(e) are    *)
(* its two states.  A pointer or reference handed out is kept with what it *)
(* refers to, so that the held value and an equal `otherwise` differ.      *)

\* Largest value of the ok_type (an int) that is tried.
MaxValue == 4

nullptr == [ref |-> "null"]

\* &std::get<...>(m_variant), or a reference to it
Held(v) == [ref |-> "held", value |-> v]

is_err(r) == r.kind = "err"                 \* holds_alternative<err_type>

is_ok(r) == r.kind = "ok"                   \* holds_alternative<ok_type>

ok(r) == IF is_ok(r) THEN Held(r.value) ELSE nullptr

err(r) == IF is_err(r) THEN Held(r.error) ELSE nullptr

\* throw *err(); return *ok();
or_throw(r) == IF is_err(r) THEN Threw(err(r).value) ELSE Returned(ok(r).value)

\* an or_else that hands back the alternative whatever is held
OrElseOtherwise(r, otherwise) == [ref |-> "otherwise", value |-> otherwise]

or_else(r, otherwise) ==
    IF is_err(r) THEN [ref |-> "otherwise", value |-> otherwise] ELSE ok(r)

operator_not(r) == is_err(r)

OkValues == 0..MaxValue

ErrValues ==
    { vulkan_error("Failed to query physical devices", s) :
         s \in {"VK_INCOMPLETE", "VK_ERROR_OUT_OF_HOST_MEMORY",
                "VK_ERROR_INITIALIZATION_FAILED"} }

Accessors == {"is_ok", "is_err", "ok", "err", "operator!", "or_throw", "or_else"}

InitResult ==
    /\ ndebug = FALSE
    /\ pc = "call"
    /\ arg \in [given : {"ok_type"}, value : OkValues, otherwise : OkValues]
                \cup [given : {"err_type"}, value : ErrValues, otherwise : OkValues]
    /\ ret = NoValue
    /\ log = <<>>
    /\ inst = 0
    /\ drv = NoValue
    /\ path = [ctor |-> "none", physical |-> 0]
    /\ dev = NewDevice(0)
    /\ selectRes = NotCalled
    /\ kept = <<>>
    /\ indices = UnresolvedIndices
    /\ createInfo = NoCreateInfo
    /\ calls = <<>>
    /\ exception = NoException
    /\ scores = <<>>

\* result(const ok_type&) / result(ok_type&&)
ConstructOk ==
    /\ pc = "call"
    /\ arg.given = "ok_type"
    /\ ret' = [object |-> Ok(arg.value), fn |-> "none", outcome |-> NoValue]
    /\ pc' = "constructed"
    /\ UNCHANGED <<objectVars, log>>

\* result(const err_type&) / result(err_type&&)
ConstructErr ==
    /\ pc = "call"
    /\ arg.given = "err_type"
    /\ ret' = [object |-> Err(arg.value), fn |-> "none", outcome |-> NoValue]
    /\ pc' = "constructed"
    /\ UNCHANGED <<objectVars, log>>

\* what the accessor fn hands back for the object r
Access(fn, r, otherwise) ==
    CASE fn = "is_ok" -> is_ok(r)
      [] fn = "is_err" -> is_err(r)
      [] fn = "ok" -> ok(r)
      [] fn = "err" -> err(r)
      [] fn = "operator!" -> operator_not(r)
      [] fn = "or_throw" -> or_throw(r)
      [] fn = "or_else" -> or_else(r, otherwise)

\* one call of an accessor on the constructed object; all are const
CallAccessor(fn) ==
    /\ pc = "constructed"
    /\ ret' = [ret EXCEPT !.fn = fn,
                          !.outcome = Access(fn, ret.object, arg.otherwise)]
    /\ UNCHANGED <<objectVars, log, pc>>

NextResult ==
    \/ ConstructOk
    \/ ConstructErr
    \/ \E fn \in Accessors : CallAccessor(fn)

SpecResult == InitResult /\ [][NextResult]_vars

\* the constructor's argument was an ok_type
GivenOk == arg.given = "ok_type"

\* C18: a result holds exactly one alternative, the one it was constructed
\* from, and every accessor agrees with it: exactly one of is_ok() and
\* is_err() is true, ok() is non-null iff is_ok(), err() is non-null iff
\* is_err(), operator! equals is_err(), or_throw() returns the held value
\* when ok and throws the held error when err, or_else(x) hands back x iff
\* is_err().
C18_ResultAccessorsAgree ==
    pc = "constructed" =>
        LET r == ret.object
            o == ret.outcome
        IN  /\ r = (IF GivenOk THEN [kind |-> "ok", value |-> arg.value]
                    ELSE [kind |-> "err", error |-> arg.value])
            /\ is_ok(r) # is_err(r)
            /\ ret.fn = "is_ok" => o = GivenOk
            /\ ret.fn = "is_err" => o = ~GivenOk
            /\ ret.fn = "ok" => /\ (o # nullptr) = GivenOk
                                /\ GivenOk => o.value = arg.value
            /\ ret.fn = "err" => /\ (o # nullptr) = ~GivenOk
                                 /\ ~GivenOk => o.value = arg.value
            /\ ret.fn = "operator!" => o = ~GivenOk
            /\ ret.fn = "or_throw" =>
                  o = (IF GivenOk THEN [threw |-> FALSE, value |-> arg.value]
                       ELSE [threw |-> TRUE, exception |-> arg.value])
            /\ ret.fn = "or_else" =>
                  /\ (o.ref = "otherwise") = ~GivenOk
                  /\ o.value = (IF GivenOk THEN arg.value ELSE arg.otherwise)

\* or_else was called with an alternative equal to the held value, and what
\* came back is the held value
C18_Witness ==
    /\ pc = "constructed"
    /\ GivenOk
    /\ arg.otherwise = arg.value
    /\ ret.fn = "or_else"
    /\ ret.outcome = [ref |-> "held", value |-> arg.value]

-----------------------------------------------------------------------------
(* bbge::version: parsing a version string.                                *)
(*                                                                         *)
(* A string is a sequence of characters.  The inputs are built by joining  *)
(* up to MaxComponents dot-free tokens with '.', so that the components of *)
(* every input are known; from_string splits and parses the characters.    *)

\* Most dot-separated components an input string has.
MaxComponents == 4

not_present == -1

\* version(), version(major, minor), version(major, minor, patch)
Version(major, minor, patch) ==
    [m_major |-> major, m_minor |-> minor, m_patch |-> patch]

get_major(v) == v.m_major

get_minor(v) == v.m_minor

get_patch(v) == v.m_patch

has_patch(v) == v.m_patch # not_present

has_minor(v) == v.m_minor # not_present

out_of_range(msg) == [type |-> "out_of_range", what |-> msg]

DigitChars == <<"0", "1", "2", "3", "4", "5", "6", "7", "8", "9">>

IsDigit(c) == c \in Range(DigitChars)

DigitValue(c) == (CHOOSE i \in 1..10 : DigitChars[i] = c) - 1

\* std::isspace
IsSpace(c) == c \in {" ", "\t", "\n"}

\* index of the first character at or behind i that is not white space
RECURSIVE SkipSpace(_, _)
SkipSpace(s, i) ==
    IF i <= Len(s) /\ IsSpace(s[i]) THEN SkipSpace(s, i + 1) ELSE i

\* strtol's digit loop from index i on, accumulated as a negative number so
\* that INT_MIN is reached without overflow: acc is the value so far, over
\* says that the digits read so far leave the range of int
RECURSIVE ReadDigits(_, _, _, _)
ReadDigits(s, i, acc, over) ==
    IF i > Len(s) \/ ~IsDigit(s[i]) THEN [value |-> acc, over |-> over]
    ELSE LET d == DigitValue(s[i])
             fits == ~over /\ (acc > -214748364 \/ (acc = -214748364 /\ d <= 8))
         IN  ReadDigits(s, i + 1, IF fits THEN acc * 10 - d ELSE acc, ~fits)

\* std::stoi(str): leading white space, an optional sign, decimal digits;
\* whatever follows the digits is ignored
stoi(s) ==
    LET start    == SkipSpace(s, 1)
        signed   == start <= Len(s) /\ s[start] \in {"-", "+"}
        negative == signed /\ s[start] = "-"
        first    == IF signed THEN start + 1 ELSE start
    IN  IF first > Len(s) \/ ~IsDigit(s[first])
        THEN Threw(invalid_argument("stoi"))
        ELSE LET n == ReadDigits(s, first, 0, FALSE)
             IN  IF n.over \/ (~negative /\ n.value = -2147483647 - 1)
                 THEN Threw(out_of_range("stoi"))
                 ELSE Returned(IF negative THEN n.value ELSE 0 - n.value)

\* boost::algorithm::split(tokens, str, c == '.') with token_compress_off:
\* the pieces between the dots, empty ones included
RECURSIVE Split(_)
Split(s) ==
    LET dots == {i \in 1..Len(s) : s[i] = "."}
    IN  IF dots = {} THEN <<s>>
        ELSE LET i == CHOOSE d \in dots : \A e \in dots : d <= e
             IN  <<SubSeq(s, 1, i - 1)>> \o Split(SubSeq(s, i + 1, Len(s)))

from_string(str) ==
    IF str = <<>> THEN Returned(Version(0, 0, not_present))
    ELSE LET tokens == Split(str)
         IN  IF Len(tokens) > 3
             THEN Threw(invalid_argument(
                     "Version string contains too many components."))
             ELSE LET major == stoi(tokens[1])
                      minor == IF Len(tokens) > 1 THEN stoi(tokens[2])
                               ELSE Returned(0)
                      patch == IF Len(tokens) > 2 THEN stoi(tokens[3])
                               ELSE Returned(not_present)
                  IN  IF major.threw THEN major
                      ELSE IF minor.threw THEN minor
                      ELSE IF patch.threw THEN patch
                      ELSE Returned(Version(major.value, minor.value, patch.value))

\* the decimal integers used as components, with their values
IntegerLiterals ==
    { [text |-> <<"0">>, value |-> 0],
      [text |-> <<"1">>, value |-> 1],
      [text |-> <<"1", "2">>, value |-> 12],
      [text |-> <<"-", "1">>, value |-> -1],
      [text |-> <<"2", "1", "4", "7", "4", "8", "3", "6", "4", "7">>,
       value |-> 2147483647] }

\* components that are no integers of the int range: empty, white space in
\* front, letters behind or alone, 2^31
OtherTokens ==
    { <<>>, <<" ", "3">>, <<"5", "x">>, <<"x">>,
      <<"2", "1", "4", "7", "4", "8", "3", "6", "4", "8">> }

Tokens == {l.text : l \in IntegerLiterals} \cup OtherTokens

RECURSIVE Join(_)
Join(parts) ==
    IF parts = <<>> THEN <<>>
    ELSE IF Len(parts) = 1 THEN parts[1]
    ELSE parts[1] \o <<".">> \o Join(Tail(parts))

VersionInputs ==
    {[parts |-> p, str |-> Join(p)] : p \in SeqsUpTo(Tokens, MaxComponents)}

\* Largest major, minor or patch number of the versions that are compared.
MaxNumber == 2

\* the decimal digits of a non-negative n, most significant first
RECURSIVE Digits(_)
Digits(n) ==
    IF n < 10 THEN <<DigitChars[n + 1]>>
    ELSE Digits(n \div 10) \o <<DigitChars[(n % 10) + 1]>>

\* the digits of -n for a negative n, taken digit by digit so that INT_MIN
\* needs no negation
RECURSIVE DigitsOfNegative(_)
DigitsOfNegative(n) ==
    LET d    == (10 - (n % 10)) % 10
        rest == (n + d) \div 10
    IN  IF rest = 0 THEN <<DigitChars[d + 1]>>
        ELSE DigitsOfNegative(rest) \o <<DigitChars[d + 1]>>

\* fmt's "{}" for an int
FormatInt(n) == IF n < 0 THEN <<"-">> \o DigitsOfNegative(n) ELSE Digits(n)

\* version::string()
string(v) ==
    IF v.m_patch >= 0
    THEN FormatInt(v.m_major) \o <<".">> \o FormatInt(v.m_minor)
            \o <<".">> \o FormatInt(v.m_patch)
    ELSE FormatInt(v.m_major) \o <<".">> \o FormatInt(v.m_minor)

\* version::operator<
operator_less(a, b) ==
    IF a.m_major > b.m_major THEN FALSE
    ELSE IF a.m_minor > b.m_minor THEN FALSE
    ELSE IF a.m_patch = not_present \/ b.m_patch = not_present THEN FALSE
    ELSE a.m_patch < b.m_patch

\* version::operator==
operator_equal(a, b) ==
    a.m_major = b.m_major /\ a.m_minor = b.m_minor /\ a.m_patch = b.m_patch

\* the versions the constructors build from numbers up to MaxNumber, with
\* and without a patch
Versions ==
    {Version(major, minor, patch) :
        major \in 0..MaxNumber, minor \in 0..MaxNumber,
        patch \in {not_present} \cup 0..MaxNumber}

VersionPairs == [a : Versions, b : Versions]

InitVersion ==
    /\ ndebug = FALSE
    /\ pc = "call"
    /\ arg \in VersionInputs \cup VersionPairs
    /\ ret = NoValue
    /\ log = <<>>
    /\ inst = 0
    /\ drv = NoValue
    /\ path = [ctor |-> "none", physical |-> 0]
    /\ dev = NewDevice(0)
    /\ selectRes = NotCalled
    /\ kept = <<>>
    /\ indices = UnresolvedIndices
    /\ createInfo = NoCreateInfo
    /\ calls = <<>>
    /\ exception = NoException
    /\ scores = <<>>

\* version::from_string(str)
FromString ==
    /\ pc = "call"
    /\ arg \in VersionInputs
    /\ ret' = from_string(arg.str)
    /\ pc' = "returned"
    /\ UNCHANGED <<objectVars, log>>

\* version::string() on the version that from_string returned
String ==
    /\ pc = "returned"
    /\ ~ret.threw
    /\ ret' = [threw |-> FALSE, value |-> ret.value, string |-> string(ret.value)]
    /\ pc' = "stringified"
    /\ UNCHANGED <<objectVars, log>>

\* a < b, b < a and a == b on two constructed versions
Compare ==
    /\ pc = "call"
    /\ arg \in VersionPairs
    /\ ret' = [less |-> operator_less(arg.a, arg.b),
               greater |-> operator_less(arg.b, arg.a),
               equal |-> operator_equal(arg.a, arg.b)]
    /\ pc' = "compared"
    /\ UNCHANGED <<objectVars, log>>

NextVersion ==
    \/ FromString
    \/ String
    \/ Compare

SpecVersion == InitVersion /\ [][NextVersion]_vars

-----------------------------------------------------------------------------
(* Properties of version parsing.                                          *)

IsLiteral(text) == \E l \in IntegerLiterals : l.text = text

ValueOf(text) == (CHOOSE l \in IntegerLiterals : l.text = text).value

AllIntegers == \A i \in 1..Len(arg.parts) : IsLiteral(arg.parts[i])

\* C19: from_string on two dot-separated integers a.b yields major a, minor
\* b, has_minor() and no patch; on three integers a.b.c it yields major a,
\* minor b, patch c and has_patch(); on the empty string it yields major 0,
\* minor 0, has_minor() and no patch.
C19_ParsesTwoAndThreeIntegers ==
    (pc = "returned" /\ AllIntegers) =>
        /\ Len(arg.parts) = 2 =>
              /\ ~ret.threw
              /\ get_major(ret.value) = ValueOf(arg.parts[1])
              /\ get_minor(ret.value) = ValueOf(arg.parts[2])
              /\ has_minor(ret.value)
              /\ ~has_patch(ret.value)
        /\ Len(arg.parts) = 3 =>
              /\ ~ret.threw
              /\ get_major(ret.value) = ValueOf(arg.parts[1])
              /\ get_minor(ret.value) = ValueOf(arg.parts[2])
              /\ get_patch(ret.value) = ValueOf(arg.parts[3])
              /\ has_patch(ret.value)
        /\ arg.str = <<>> =>
              /\ ~ret.threw
              /\ get_major(ret.value) = 0
              /\ get_minor(ret.value) = 0
              /\ has_minor(ret.value)
              /\ ~has_patch(ret.value)

HasEmptyComponent == \E i \in 1..Len(arg.parts) : arg.parts[i] = <<>>

\* C20: from_string throws std::invalid_argument, and returns no version,
\* for every non-empty input with more than three dot-separated components
\* or with an empty component.
C20_MalformedThrowsInvalidArgument ==
    (pc = "returned" /\ arg.str # <<>>
        /\ (Len(arg.parts) > 3 \/ HasEmptyComponent)) =>
        /\ ret.threw
        /\ ret.exception.type = "invalid_argument"

\* C21: for a string of one, two or three dot-separated decimal integers,
\* from_string(s).string() is s itself.
C21_ParseThenStringRoundTrips ==
    (pc = "stringified" /\ AllIntegers /\ Len(arg.parts) \in 1..3) =>
        ret.string = arg.str

\* (major, minor, patch) of a is lexicographically below that of b
LexLess(a, b) ==
    \/ a.m_major < b.m_major
    \/ a.m_major = b.m_major /\ a.m_minor < b.m_minor
    \/ a.m_major = b.m_major /\ a.m_minor = b.m_minor /\ a.m_patch < b.m_patch

\* C30: for two versions that both have a patch, a < b holds exactly when
\* (major, minor, patch) of a is lexicographically smaller than that of b;
\* so a smaller major makes a < b, and of two different versions exactly
\* one is below the other.
C30_LessIsSemanticOrder ==
    (pc = "compared" /\ has_patch(arg.a) /\ has_patch(arg.b)) =>
        /\ ret.less = LexLess(arg.a, arg.b)
        /\ arg.a.m_major < arg.b.m_major => ret.less
        /\ arg.a # arg.b => (ret.less # ret.greater)

-----------------------------------------------------------------------------
(* The client's startup sequence: the try block of main().  The locals are *)
(* constructed in declaration order; when a constructor throws, or the     *)
(* block ends, the locals whose construction completed are destroyed by    *)
(* scope exit and the exception, if any, reaches a handler of main.        *)
(*   ret  = [alive, destroyed]: the constructed locals of the block, in    *)
(*          construction order, and the locals destroyed so far, in order  *)
(*   drv  = what the windowing library and the driver answer to each       *)
(*          constructor                                                    *)

\* a declaration order in which the surface comes before the instance
LocalsSurfaceBeforeInstance ==
    <<"glfw", "win", "vk_surface", "vk_debug", "vk_instance", "vk_device", "vk_swapchain">>

\* the locals of the try block, in declaration order
Locals ==
    <<"glfw", "win", "vk_instance", "vk_debug", "vk_surface", "vk_device", "vk_swapchain">>

StartupAnswers ==
    [glfw         : {"ok", "init_failed", "vulkan_unsupported"},
     win          : {"ok", "null"},
     vk_instance  : {VK_SUCCESS, "VK_ERROR_INCOMPATIBLE_DRIVER"},
     vk_debug     : {VK_SUCCESS, "not_loaded", "VK_ERROR_OUT_OF_HOST_MEMORY"},
     vk_surface   : {VK_SUCCESS, "VK_ERROR_INITIALIZATION_FAILED"},
     vk_device    : {VK_SUCCESS, "VK_ERROR_FEATURE_NOT_PRESENT"},
     vk_swapchain : {VK_SUCCESS, "VK_ERROR_SURFACE_LOST_KHR"}]

glfw_error(s) == runtime_error(<<"[glfw] ", s>>)

\* a constructor's outcome: the object with its handle member and the
\* create calls made, or the exception that left the constructor
Constructed(handle, made) == [threw |-> FALSE, handle |-> handle, calls |-> made]
Failed(e, made) == [threw |-> TRUE, exception |-> e, calls |-> made]

\* glfw_api::glfw_api()
glfw_api(answer) ==
    IF answer = "init_failed"
    THEN Failed(glfw_error("Failed to init."), <<[fn |-> "glfwInit", ok |-> FALSE]>>)
    ELSE IF answer = "vulkan_unsupported"
    THEN Failed(glfw_error("Vulkan not supported."), <<[fn |-> "glfwInit", ok |-> TRUE]>>)
    ELSE Constructed(1, <<[fn |-> "glfwInit", ok |-> TRUE]>>)

\* glfw_window::glfw_window(title, position, dimensions)
glfw_window(answer) ==
    IF answer = "null"
    THEN Failed(glfw_error("Failed to open window '{}'."),
                <<[fn |-> "glfwCreateWindow", ok |-> FALSE]>>)
    ELSE Constructed(1, <<[fn |-> "glfwCreateWindow", ok |-> TRUE]>>)

\* vulkan_instance::vulkan_instance(app_name, app_version), as main sees it:
\* it returns with m_instance set or throws
vulkan_instance(answer) ==
    IF answer # VK_SUCCESS
    THEN Failed(vulkan_error("Failed to create instance.", answer),
                <<[fn |-> "vkCreateInstance", ok |-> FALSE]>>)
    ELSE Constructed(InstanceHandle, <<[fn |-> "vkCreateInstance", ok |-> TRUE]>>)

\* vulkan_debug_messenger::vulkan_debug_messenger(instance): never throws;
\* m_handle stays VK_NULL_HANDLE when the messenger was not created
vulkan_debug_messenger(answer) ==
    IF answer = "not_loaded" THEN Constructed(0, <<>>)
    ELSE IF answer # VK_SUCCESS
    THEN Constructed(0, <<[fn |-> "vkCreateDebugUtilsMessengerEXT", ok |-> FALSE]>>)
    ELSE Constructed(1, <<[fn |-> "vkCreateDebugUtilsMessengerEXT", ok |-> TRUE]>>)

\* vulkan_surface::vulkan_surface(instance, win)
vulkan_surface(answer) ==
    IF answer # VK_SUCCESS
    THEN Failed(vulkan_error("Failed to create window surface", answer),
                <<[fn |-> "glfwCreateWindowSurface", ok |-> FALSE]>>)
    ELSE Constructed(1, <<[fn |-> "glfwCreateWindowSurface", ok |-> TRUE]>>)

\* vulkan_device::vulkan_device(inst, surface), as main sees it
vulkan_device(answer) ==
    IF answer # VK_SUCCESS
    THEN Failed(vulkan_error("Failed to create logical device", answer),
                <<[fn |-> "vkCreateDevice", ok |-> FALSE]>>)
    ELSE Constructed(DeviceHandle, <<[fn |-> "vkCreateDevice", ok |-> TRUE]>>)

\* the construction of vk_swapchain in main: it completes or throws
vulkan_swap_chain(answer) ==
    IF answer # VK_SUCCESS
    THEN Failed(vulkan_error("Failed to create swap chain", answer), <<>>)
    ELSE Constructed(1, <<>>)

Constructor(local, answers) ==
    CASE local = "glfw"         -> glfw_api(answers.glfw)
      [] local = "win"          -> glfw_window(answers.win)
      [] local = "vk_instance"  -> vulkan_instance(answers.vk_instance)
      [] local = "vk_debug"     -> vulkan_debug_messenger(answers.vk_debug)
      [] local = "vk_surface"   -> vulkan_surface(answers.vk_surface)
      [] local = "vk_device"    -> vulkan_device(answers.vk_device)
      [] local = "vk_swapchain" -> vulkan_swap_chain(answers.vk_swapchain)

\* the destroy calls of each destructor, for an object with this handle
Destructor(local, handle) ==
    CASE local = "glfw"         -> <<[fn |-> "glfwTerminate"]>>
      [] local = "win"          ->
            IF handle # 0 THEN <<[fn |-> "glfwDestroyWindow"]>> ELSE <<>>
      [] local = "vk_instance"  -> <<[fn |-> "vkDestroyInstance"]>>
      [] local = "vk_debug"     ->
            IF handle # 0 THEN <<[fn |-> "vkDestroyDebugUtilsMessengerEXT"]>> ELSE <<>>
      [] local = "vk_surface"   ->
            IF handle # 0 THEN <<[fn |-> "vkDestroySurfaceKHR"]>> ELSE <<>>
      [] local = "vk_device"    ->
            IF handle # 0 THEN <<[fn |-> "vkDestroyDevice"]>> ELSE <<>>
      [] local = "vk_swapchain" -> <<>>

\* scope exit destroys the most recently constructed local first
NextToDestroy(alive) == Len(alive)

InitStartup ==
    /\ drv \in StartupAnswers
    /\ ndebug \in BOOLEAN
    /\ pc = "try"
    /\ ret = [alive |-> <<>>, destroyed |-> <<>>]
    /\ calls = <<>>
    /\ exception = NoException
    /\ log = <<>>
    /\ arg = NoValue
    /\ inst = 0
    /\ path = [ctor |-> "none", physical |-> 0]
    /\ dev = NewDevice(0)
    /\ selectRes = NotCalled
    /\ kept = <<>>
    /\ indices = UnresolvedIndices
    /\ createInfo = NoCreateInfo
    /\ scores = <<>>

startupFrame == <<drv, ndebug, path, selectRes, kept, dev, indices, createInfo,
                  scores, inst, arg>>

\* the next declaration of the try block
ConstructLocal ==
    /\ pc = "try"
    /\ Len(ret.alive) < Len(Locals)
    /\ LET local == Locals[Len(ret.alive) + 1]
           out   == Constructor(local, drv)
       IN  /\ calls' = calls \o out.calls
           /\ IF out.threw
              THEN /\ exception' = out.exception
                   /\ pc' = "unwind"
                   /\ ret' = ret
              ELSE /\ ret' = [ret EXCEPT !.alive =
                                 Append(@, [local |-> local, handle |-> out.handle])]
                   /\ UNCHANGED <<exception, pc>>
    /\ UNCHANGED log
    /\ UNCHANGED startupFrame

\* std::this_thread::sleep_for, then the end of the block
EndOfBlock ==
    /\ pc = "try"
    /\ Len(ret.alive) = Len(Locals)
    /\ pc' = "unwind"
    /\ UNCHANGED <<ret, calls, exception, log>>
    /\ UNCHANGED startupFrame

\* one destructor of the scope exit
DestroyLocal ==
    /\ pc = "unwind"
    /\ ret.alive # <<>>
    /\ LET i      == NextToDestroy(ret.alive)
           object == ret.alive[i]
       IN  /\ calls' = calls \o Destructor(object.local, object.handle)
           /\ ret' = [alive     |-> [k \in 1..(Len(ret.alive) - 1) |->
                                        IF k < i THEN ret.alive[k] ELSE ret.alive[k + 1]],
                      destroyed |-> Append(ret.destroyed, object.local)]
    /\ UNCHANGED <<pc, exception, log>>
    /\ UNCHANGED startupFrame

\* catch (const std::exception& ex)
CatchException ==
    /\ pc = "unwind"
    /\ ret.alive = <<>>
    /\ exception # NoException
    /\ log' = Append(log, [level |-> "critical",
                           what |-> <<"EXCEPTION: {}", exception.what>>])
    /\ pc' = "done"
    /\ UNCHANGED <<ret, calls, exception>>
    /\ UNCHANGED startupFrame

\* return 0 when nothing was thrown
ReturnFromMain ==
    /\ pc = "unwind"
    /\ ret.alive = <<>>
    /\ exception = NoException
    /\ pc' = "done"
    /\ UNCHANGED <<ret, calls, exception, log>>
    /\ UNCHANGED startupFrame

NextStartup ==
    \/ ConstructLocal
    \/ EndOfBlock
    \/ DestroyLocal
    \/ CatchException
    \/ ReturnFromMain

SpecStartup == InitStartup /\ [][NextStartup]_vars

\* the position of a local in the order of construction
CreationIndex(local) == CHOOSE i \in 1..Len(Locals) : Locals[i] = local

\* the locals whose constructors complete under the collaborators' answers
RECURSIVE CompletedUpTo(_)
CompletedUpTo(n) ==
    IF n = 0 THEN <<>>
    ELSE LET before == CompletedUpTo(n - 1)
         IN  IF Len(before) = n - 1 /\ ~Constructor(Locals[n], drv).threw
             THEN Append(before, Locals[n])
             ELSE before

ReverseOf(s) == [i \in 1..Len(s) |-> s[Len(s) + 1 - i]]

\* position of the first call of a function in the driver calls, 0 if none
CallIndex(fn) ==
    IF \E i \in 1..Len(calls) : calls[i].fn = fn
    THEN CHOOSE i \in 1..Len(calls) :
             calls[i].fn = fn /\ \A j \in 1..(i - 1) : calls[j].fn # fn
    ELSE 0

CalledBefore(first, second) ==
    (CallIndex(first) # 0 /\ CallIndex(second) # 0) => CallIndex(first) < CallIndex(second)

GraphicsLocals == {"vk_instance", "vk_debug", "vk_surface", "vk_device", "vk_swapchain"}

\* C22: whichever constructor of main's try block throws, or none, the
\* locals that were constructed are destroyed in exactly the reverse of the
\* order of their construction: the swap chain before the device, the device
\* before the surface, the surface before the instance, the instance last of
\* the graphics objects, the window and the windowing API after the surface;
\* and no local is destroyed while a local constructed after it is alive.
C22_DestroyedInReverseCreationOrder ==
    /\ \A i \in 1..Len(ret.destroyed) : \A j \in 1..Len(ret.alive) :
           CreationIndex(ret.alive[j].local) < CreationIndex(ret.destroyed[i])
    /\ \A i, j \in 1..Len(ret.destroyed) :
           i < j => CreationIndex(ret.destroyed[i]) > CreationIndex(ret.destroyed[j])
    /\ pc = "done" => ret.destroyed = ReverseOf(CompletedUpTo(Len(Locals)))
    /\ \A i, j \in 1..Len(ret.destroyed) :
           /\ (ret.destroyed[i] = "vk_swapchain" /\ ret.destroyed[j] = "vk_device") => i < j
           /\ (ret.destroyed[i] = "vk_device" /\ ret.destroyed[j] = "vk_surface") => i < j
           /\ (ret.destroyed[i] = "vk_surface" /\ ret.destroyed[j] = "vk_instance") => i < j
           /\ (ret.destroyed[i] \in GraphicsLocals /\ ret.destroyed[j] = "vk_instance")
                  => i <= j
           /\ (ret.destroyed[i] = "vk_surface" /\ ret.destroyed[j] \in {"win", "glfw"})
                  => i < j
    /\ CalledBefore("vkDestroyDevice", "vkDestroySurfaceKHR")
    /\ CalledBefore("vkDestroySurfaceKHR", "vkDestroyInstance")
    /\ CalledBefore("vkDestroyDebugUtilsMessengerEXT", "vkDestroyInstance")
    /\ CalledBefore("vkDestroySurfaceKHR", "glfwDestroyWindow")
    /\ CalledBefore("glfwDestroyWindow", "glfwTerminate")

\* the device's constructor threw after the surface was created, and the
\* scope exit has destroyed the surface, the messenger and the instance
C22_Witness ==
    /\ pc = "done"
    /\ exception # NoException
    /\ drv.vk_device # VK_SUCCESS
    /\ ret.destroyed = <<"vk_surface", "vk_debug", "vk_instance", "win", "glfw">>

-----------------------------------------------------------------------------
(* Ownership of the driver handles: objects of the owning classes under    *)
(* the operations their declarations permit.                               *)
(*   ret   = the objects: [class, m_handle, alive], in order of creation    *)
(*   calls = the create and destroy calls, with the handle and the object  *)

\* Most objects of the owning classes that exist in one run.
MaxObjects == 3

OwningClasses ==
    {"vulkan_instance", "vulkan_device", "vulkan_surface", "vulkan_debug_messenger"}

\* BBGE_NO_COPIES(clazz) in the class: the copy constructor and the copy
\* assignment are deleted, and no move operation is declared
NoCopies(class) ==
    class \in {"vulkan_instance", "vulkan_device", "vulkan_debug_messenger"}

\* the local of main that has this class
LocalOfClass(class) ==
    CASE class = "vulkan_instance"        -> "vk_instance"
      [] class = "vulkan_device"          -> "vk_device"
      [] class = "vulkan_surface"         -> "vk_surface"
      [] class = "vulkan_debug_messenger" -> "vk_debug"

\* the create call of a constructor that completes
CreateFn(class) ==
    LET out == CASE class = "vulkan_instance"        -> vulkan_instance(VK_SUCCESS)
                 [] class = "vulkan_device"          -> vulkan_device(VK_SUCCESS)
                 [] class = "vulkan_surface"         -> vulkan_surface(VK_SUCCESS)
                 [] class = "vulkan_debug_messenger" -> vulkan_debug_messenger(VK_SUCCESS)
    IN  out.calls[1].fn

InitOwnership ==
    /\ ret = <<>>
    /\ calls = <<>>
    /\ pc = "running"
    /\ ndebug \in BOOLEAN
    /\ drv = NoValue
    /\ exception = NoException
    /\ log = <<>>
    /\ arg = NoValue
    /\ inst = 0
    /\ path = [ctor |-> "none", physical |-> 0]
    /\ dev = NewDevice(0)
    /\ selectRes = NotCalled
    /\ kept = <<>>
    /\ indices = UnresolvedIndices
    /\ createInfo = NoCreateInfo
    /\ scores = <<>>

ownershipFrame == <<drv, ndebug, pc, path, selectRes, kept, dev, indices, createInfo,
                    scores, inst, arg, exception, log>>

\* the handles the driver has handed out so far
CreatedHandles == {calls[k].handle : k \in {n \in 1..Len(calls) : calls[n].op = "create"}}

\* a constructor that completes: the driver hands out a new handle
Construct(class) ==
    /\ Len(ret) < MaxObjects
    /\ LET handle == Cardinality(CreatedHandles) + 1
       IN  /\ ret' = Append(ret, [class |-> class, m_handle |-> handle, alive |-> TRUE])
           /\ calls' = Append(calls, [op |-> "create", fn |-> CreateFn(class),
                                      handle |-> handle, owner |-> Len(ret) + 1])
    /\ UNCHANGED ownershipFrame

\* the implicitly declared copy constructor: memberwise copy
CopyConstruct(i) ==
    /\ Len(ret) < MaxObjects
    /\ ret[i].alive
    /\ ~NoCopies(ret[i].class)
    /\ ret' = Append(ret, [class |-> ret[i].class, m_handle |-> ret[i].m_handle,
                           alive |-> TRUE])
    /\ UNCHANGED calls
    /\ UNCHANGED ownershipFrame

\* the implicitly declared copy assignment ret[i] = ret[j]: memberwise copy
CopyAssign(i, j) ==
    /\ i # j
    /\ ret[i].alive /\ ret[j].alive
    /\ ret[i].class = ret[j].class
    /\ ~NoCopies(ret[i].class)
    /\ ret' = [ret EXCEPT ![i].m_handle = ret[j].m_handle]
    /\ UNCHANGED calls
    /\ UNCHANGED ownershipFrame

\* the destructor of object i
Destroy(i) ==
    /\ ret[i].alive
    /\ LET made == Destructor(LocalOfClass(ret[i].class), ret[i].m_handle)
       IN  calls' = calls \o [k \in 1..Len(made) |->
                                 [op |-> "destroy", fn |-> made[k].fn,
                                  handle |-> ret[i].m_handle, owner |-> i]]
    /\ ret' = [ret EXCEPT ![i].alive = FALSE]
    /\ UNCHANGED ownershipFrame

NextOwnership ==
    \/ \E class \in OwningClasses : Construct(class)
    \/ \E i \in 1..Len(ret) : CopyConstruct(i)
    \/ \E i, j \in 1..Len(ret) : CopyAssign(i, j)
    \/ \E i \in 1..Len(ret) : Destroy(i)

SpecOwnership == InitOwnership /\ [][NextOwnership]_vars

DestroyCallsOf(handle) ==
    {k \in 1..Len(calls) : calls[k].op = "destroy" /\ calls[k].handle = handle}

\* C23: each owning object owns its driver handle exclusively: a handle that
\* was created is passed to the driver's destroy call at most once and never
\* by two different objects, and once every object has been destroyed each
\* created handle has been destroyed exactly once.
C23_HandleDestroyedExactlyOnce ==
    \A handle \in CreatedHandles :
        /\ Cardinality(DestroyCallsOf(handle)) <= 1
        /\ Cardinality({calls[k].owner : k \in DestroyCallsOf(handle)}) <= 1
        /\ (\A i \in 1..Len(ret) : ~ret[i].alive)
               => Cardinality(DestroyCallsOf(handle)) = 1

-----------------------------------------------------------------------------
(* The swap chain's creation policies.  The constructor that main calls    *)
(* (physical device, device, surface, window, queue family indices) is not *)
(* part of vulkan.cpp, which holds an empty three-argument constructor;    *)
(* the two policies below follow the design document, section 4.6.         *)
(*   arg = the queue family indices, or the surface capabilities and the   *)
(*         window's pixel size                                             *)
(*   ret = the sharing mode and family list, or the resolved extent        *)

\* Largest width or height of an extent other than the sentinel.
MaxExtent == 2

\* a sharing policy with the two modes exchanged
SharingModeExchanged(ix) ==
    LET families == QueueFamilyIndexSet(ix)
    IN  IF Len(families) < 2
        THEN [imageSharingMode |-> "VK_SHARING_MODE_EXCLUSIVE", pQueueFamilyIndices |-> <<>>]
        ELSE [imageSharingMode |-> "VK_SHARING_MODE_CONCURRENT",
              pQueueFamilyIndices |-> families]

\* queue-family sharing mode: concurrent across the deduplicated list when
\* it has fewer than two families, exclusive with no list otherwise
choose_sharing_mode(ix) ==
    LET families == QueueFamilyIndexSet(ix)
    IN  IF Len(families) < 2
        THEN [imageSharingMode |-> "VK_SHARING_MODE_CONCURRENT",
              pQueueFamilyIndices |-> families]
        ELSE [imageSharingMode |-> "VK_SHARING_MODE_EXCLUSIVE", pQueueFamilyIndices |-> <<>>]

\* std::clamp on uint32_t
ClampU32(v, lo, hi) == IF ULess(v, lo) THEN lo ELSE IF ULess(hi, v) THEN hi ELSE v

IsSentinelExtent(extent) == extent.width = UINT32_MAX

\* an extent policy that clamps the width only
ExtentClampsWidthOnly(capabilities, size) ==
    IF ~IsSentinelExtent(capabilities.currentExtent)
    THEN Returned(capabilities.currentExtent)
    ELSE IF size.width < 0 \/ size.height < 0
    THEN Threw(runtime_error("Failed to query the window size"))
    ELSE Returned(
             [width  |-> ClampU32(U32(size.width), capabilities.minImageExtent.width,
                                  capabilities.maxImageExtent.width),
              height |-> U32(size.height)])

\* extent selection: the reported current extent verbatim, or with the
\* sentinel the window's pixel size, each axis clamped into [min, max]
choose_extent(capabilities, size) ==
    IF ~IsSentinelExtent(capabilities.currentExtent)
    THEN Returned(capabilities.currentExtent)
    ELSE IF size.width < 0 \/ size.height < 0
    THEN Threw(runtime_error("Failed to query the window size"))
    ELSE Returned(
             [width  |-> ClampU32(U32(size.width), capabilities.minImageExtent.width,
                                  capabilities.maxImageExtent.width),
              height |-> ClampU32(U32(size.height), capabilities.minImageExtent.height,
                                  capabilities.maxImageExtent.height)])

ExtentValues == {U32(n) : n \in 0..MaxExtent}

Extents == [width : ExtentValues, height : ExtentValues]

SentinelExtent == [width |-> UINT32_MAX, height |-> UINT32_MAX]

\* VkSurfaceCapabilitiesKHR: minImageExtent <= maxImageExtent on each axis
SurfaceCapabilities ==
    {c \in [currentExtent  : Extents \cup {SentinelExtent},
            minImageExtent : Extents,
            maxImageExtent : Extents] :
        /\ ~ULess(c.maxImageExtent.width, c.minImageExtent.width)
        /\ ~ULess(c.maxImageExtent.height, c.minImageExtent.height)}

\* the window's pixel size; a negative component is a failed query
WindowSizes == [width : -1..MaxExtent, height : -1..MaxExtent]

SharingInputs ==
    [kind : {"indices"},
     indices : [graphics : {U32(n) : n \in 0..MaxFamilies},
                presentation : {U32(n) : n \in 0..MaxFamilies}]]

ExtentInputs == [kind : {"extent"}, capabilities : SurfaceCapabilities, size : WindowSizes]

InitSwapChain ==
    /\ arg \in SharingInputs \cup ExtentInputs
    /\ ret = NoValue
    /\ pc = "call"
    /\ ndebug \in BOOLEAN
    /\ drv = NoValue
    /\ calls = <<>>
    /\ exception = NoException
    /\ log = <<>>
    /\ inst = 0
    /\ path = [ctor |-> "none", physical |-> 0]
    /\ dev = NewDevice(0)
    /\ selectRes = NotCalled
    /\ kept = <<>>
    /\ indices = UnresolvedIndices
    /\ createInfo = NoCreateInfo
    /\ scores = <<>>

ChooseSharingMode ==
    /\ pc = "call"
    /\ arg.kind = "indices"
    /\ ret' = choose_sharing_mode(arg.indices)
    /\ pc' = "returned"
    /\ UNCHANGED objectVars
    /\ UNCHANGED log

ChooseExtent ==
    /\ pc = "call"
    /\ arg.kind = "extent"
    /\ ret' = choose_extent(arg.capabilities, arg.size)
    /\ pc' = "returned"
    /\ UNCHANGED objectVars
    /\ UNCHANGED log

NextSwapChain ==
    \/ ChooseSharingMode
    \/ ChooseExtent

SpecSwapChain == InitSwapChain /\ [][NextSwapChain]_vars

\* C24: the image sharing mode follows from the queue family indices alone:
\* equal graphics and presentation indices give concurrent sharing with the
\* one-element family list of that index, different indices give exclusive
\* sharing with an empty family list.
C24_SharingModeFromIndices ==
    (pc = "returned" /\ arg.kind = "indices") =>
        IF arg.indices.graphics = arg.indices.presentation
        THEN /\ ret.imageSharingMode = "VK_SHARING_MODE_CONCURRENT"
             /\ ret.pQueueFamilyIndices = <<arg.indices.graphics>>
        ELSE /\ ret.imageSharingMode = "VK_SHARING_MODE_EXCLUSIVE"
             /\ ret.pQueueFamilyIndices = <<>>

\* graphics index 2 and presentation index 2: concurrent sharing over [2]
C24_Witness ==
    /\ pc = "returned"
    /\ arg.kind = "indices"
    /\ arg.indices = [graphics |-> U32(2), presentation |-> U32(2)]
    /\ ret.pQueueFamilyIndices = <<U32(2)>>

InBoundsU32(v, lo, hi) == ~ULess(v, lo) /\ ~ULess(hi, v)

\* C25: with the sentinel current extent the resolved extent is the window's
\* pixel size, width and height each clamped on its own into the
\* capabilities' [min extent, max extent]; with any other current extent the
\* resolved extent is that extent, whatever the window's size.
C25_ExtentResolution ==
    (pc = "returned" /\ arg.kind = "extent") =>
        LET caps == arg.capabilities
        IN  IF caps.currentExtent = SentinelExtent
            THEN IF arg.size.width < 0 \/ arg.size.height < 0
                 THEN ret.threw
                 ELSE /\ ~ret.threw
                      /\ InBoundsU32(ret.value.width, caps.minImageExtent.width,
                                     caps.maxImageExtent.width)
                      /\ InBoundsU32(ret.value.height, caps.minImageExtent.height,
                                     caps.maxImageExtent.height)
                      /\ InBoundsU32(U32(arg.size.width), caps.minImageExtent.width,
                                     caps.maxImageExtent.width)
                             => ret.value.width = U32(arg.size.width)
                      /\ ULess(U32(arg.size.width), caps.minImageExtent.width)
                             => ret.value.width = caps.minImageExtent.width
                      /\ ULess(caps.maxImageExtent.width, U32(arg.size.width))
                             => ret.value.width = caps.maxImageExtent.width
                      /\ InBoundsU32(U32(arg.size.height), caps.minImageExtent.height,
                                     caps.maxImageExtent.height)
                             => ret.value.height = U32(arg.size.height)
                      /\ ULess(U32(arg.size.height), caps.minImageExtent.height)
                             => ret.value.height = caps.minImageExtent.height
                      /\ ULess(caps.maxImageExtent.height, U32(arg.size.height))
                             => ret.value.height = caps.maxImageExtent.height
            ELSE /\ ~ret.threw
                 /\ ret.value = caps.currentExtent

\* the sentinel with a window wider than the maximum and lower than the
\* minimum: the width comes down to the maximum, the height up to the minimum
C25_Witness ==
    /\ pc = "returned"
    /\ arg.kind = "extent"
    /\ arg.capabilities.currentExtent = SentinelExtent
    /\ arg.capabilities.minImageExtent = [width |-> U32(1), height |-> U32(1)]
    /\ arg.capabilities.maxImageExtent = [width |-> U32(1), height |-> U32(2)]
    /\ arg.size = [width |-> 2, height |-> 0]
    /\ ~ret.threw
    /\ ret.value = [width |-> U32(1), height |-> U32(1)]

-----------------------------------------------------------------------------
(* Device creation for a device the default strategy selected.             *)

SelectedByStrategy ==
    /\ path.ctor = "strategy"
    /\ SelectReturned
    /\ selectRes.value.kind = "ok"

C28_SelectNeverThrows ==
    (path.ctor = "strategy" /\ pc # "start") =>
        /\ ~selectRes.threw
        /\ selectRes.value.kind \in {"ok", "err"}
        /\ (pc = "thrown" /\ selectRes.value.kind = "err")
               => exception = selectRes.value.error

-----------------------------------------------------------------------------
(* The two driver calls of a count-then-fetch query, one by one: the count *)
(* call reports a number of elements, the vector is allocated with that    *)
(* many value-initialised elements, and the fetch call writes what the     *)
(* driver holds by then, at most as many elements as the vector has.       *)
(*   arg = [fn, counted, available, status]: the number the count call     *)
(*         reports, the driver's elements at the time of the fetch call    *)
(*         and the statuses of the two calls                               *)

ValueInitialised == "value_initialised"

\* std::vector<T> v(count)
NewVector(count) == [i \in 1..count |-> ValueInitialised]

\* the fetch call on a vector: the driver overwrites the leading elements
\* and stores the number written in the count argument
DriverFetch(vector, available) ==
    LET written == IF Len(available) < Len(vector) THEN Len(available) ELSE Len(vector)
    IN  [vector |-> [i \in 1..Len(vector) |->
                        IF i <= written THEN available[i] ELSE vector[i]],
         count  |-> written]

\* the status of the fetch call: VK_INCOMPLETE when the vector is too short
FetchStatus(counted, available, status) ==
    IF status # VK_SUCCESS THEN status
    ELSE IF Len(available) > counted THEN "VK_INCOMPLETE"
    ELSE VK_SUCCESS

\* query_swapchain_images and the queries of the same shape, call by call
TwoCallQuery(counted, available, status, msg) ==
    IF status[1] # VK_SUCCESS THEN Err(vulkan_error(msg, status[1]))
    ELSE LET images  == NewVector(counted)
             fetched == DriverFetch(images, available)
             res     == FetchStatus(counted, available, status[2])
         IN  IF res # VK_SUCCESS THEN Err(vulkan_error(msg, res))
             ELSE Ok(fetched.vector)

\* query_queue_families, call by call: the driver calls return no status
TwoCallQueueFamilies(counted, available) ==
    LET props == NewVector(counted)
    IN  DriverFetch(props, available).vector

FetchCalls ==
    [fn : {"query_swapchain_images", "query_available_instance_extensions",
           "query_queue_families"},
     counted : 0..MaxElements,
     available : SeqsUpTo({"x", "y"}, MaxElements),
     status : {VK_SUCCESS, "VK_ERROR_OUT_OF_HOST_MEMORY"}
                  \X {VK_SUCCESS, "VK_ERROR_OUT_OF_HOST_MEMORY"}]

InitFetch ==
    /\ arg \in FetchCalls
    /\ ret = NoValue
    /\ pc = "call"
    /\ ndebug = FALSE
    /\ drv = NoValue
    /\ calls = <<>>
    /\ exception = NoException
    /\ log = <<>>
    /\ inst = 0
    /\ path = [ctor |-> "none", physical |-> 0]
    /\ dev = NewDevice(0)
    /\ selectRes = NotCalled
    /\ kept = <<>>
    /\ indices = UnresolvedIndices
    /\ createInfo = NoCreateInfo
    /\ scores = <<>>

FetchSwapchainImages ==
    /\ pc = "call"
    /\ arg.fn = "query_swapchain_images"
    /\ ret' = TwoCallQuery(arg.counted, arg.available, arg.status,
                           "Failed to query swap chain images")
    /\ pc' = "returned"
    /\ UNCHANGED <<objectVars, log>>

FetchInstanceExtensions ==
    /\ pc = "call"
    /\ arg.fn = "query_available_instance_extensions"
    /\ ret' = TwoCallQuery(arg.counted, arg.available, arg.status,
                           "Failed to query available instance extensions")
    /\ pc' = "returned"
    /\ UNCHANGED <<objectVars, log>>

FetchQueueFamilies ==
    /\ pc = "call"
    /\ arg.fn = "query_queue_families"
    /\ ret' = Ok(TwoCallQueueFamilies(arg.counted, arg.available))
    /\ pc' = "returned"
    /\ UNCHANGED <<objectVars, log>>

NextFetch ==
    \/ FetchSwapchainImages
    \/ FetchInstanceExtensions
    \/ FetchQueueFamilies

SpecFetch == InitFetch /\ [][NextFetch]_vars

\* C27: when the fetch call succeeds but writes fewer elements than the
\* count call reported, the sequence a count-then-fetch query returns is cut
\* down to the elements written: it is as long as the number written and
\* holds no value-initialised trailing element.
C27_TruncatedOnShortRead ==
    (pc = "returned" /\ ret.kind = "ok") =>
        /\ Len(ret.value) = DriverFetch(NewVector(arg.counted), arg.available).count
        /\ \A i \in 1..Len(ret.value) : ret.value[i] # ValueInitialised

-----------------------------------------------------------------------------
(* vulkan_pipeline: construction and destruction.                          *)
(*   drv   = the driver's status for each create call and whether each     *)
(*           shader file can be loaded                                     *)
(*   ret   = the members [m_layout, m_render_pass, m_pipeline]             *)
(*   calls = the create calls that returned an object, and the destroy     *)
(*           calls, by the object they concern                             *)

VK_NULL_HANDLE == "VK_NULL_HANDLE"

PipelineAnswers ==
    [layout          : {VK_SUCCESS, "VK_ERROR_OUT_OF_HOST_MEMORY"},
     render_pass     : {VK_SUCCESS, "VK_ERROR_OUT_OF_HOST_MEMORY"},
     fragment_file   : {"loaded", "missing"},
     vertex_file     : {"loaded", "missing"},
     fragment_module : {VK_SUCCESS, "VK_ERROR_INVALID_SHADER_NV"},
     vertex_module   : {VK_SUCCESS, "VK_ERROR_INVALID_SHADER_NV"},
     pipeline        : {VK_SUCCESS, "VK_ERROR_OUT_OF_DEVICE_MEMORY"}]

Created(object) == [op |-> "create", object |-> object]
Destroyed(object) == [op |-> "destroy", object |-> object]

\* an operation's outcome together with the driver calls it made
Outcome(result, made) == [result |-> result, calls |-> made]

\* vulkan_pipeline::create_pipeline_layout
create_pipeline_layout(answers) ==
    IF answers.layout # VK_SUCCESS
    THEN Outcome(Err(vulkan_error("Failed to create Vulkan pipeline layout",
                                  answers.layout)), <<>>)
    ELSE Outcome(Ok("layout"), <<Created("layout")>>)

\* vulkan_pipeline::create_simple_render_pass
create_simple_render_pass(answers) ==
    IF answers.render_pass # VK_SUCCESS
    THEN Outcome(Err(vulkan_error("Failed to create render pass", answers.render_pass)),
                 <<>>)
    ELSE Outcome(Ok("render_pass"), <<Created("render_pass")>>)

\* vulkan_pipeline::load_binary_file
load_binary_file(answer) ==
    IF answer = "missing" THEN Err(runtime_error("File '{}' doesn't exist."))
    ELSE Ok("bytes")

\* vulkan_pipeline::create_shader_module
create_shader_module(status, object) ==
    IF status # VK_SUCCESS
    THEN Outcome(Err(vulkan_error(
             "Failed to create shader module of type '{}' for rendering pipeline '{}'",
             status)), <<>>)
    ELSE Outcome(Ok(object), <<Created(object)>>)

\* vulkan_pipeline::create_pipeline: its outcome, returned or thrown, with
\* the calls made, the module_wrapper destructors among them
create_pipeline(answers) ==
    LET frag_code == load_binary_file(answers.fragment_file)
        vert_code == load_binary_file(answers.vertex_file)
        frag == create_shader_module(answers.fragment_module, "fragment_module")
        vert == create_shader_module(answers.vertex_module, "vertex_module")
    IN  IF frag_code.kind = "err"
        THEN Outcome(Returned(Err(vulkan_error(
                 <<"Failed to load shader module code: {}", frag_code.error.what>>,
                 "VK_ERROR_UNKNOWN"))), <<>>)
        ELSE IF vert_code.kind = "err"
        THEN Outcome(Returned(Err(vulkan_error(
                 <<"Failed to load shader module code: {}", vert_code.error.what>>,
                 "VK_ERROR_UNKNOWN"))), <<>>)
        ELSE IF frag.result.kind = "err"
        THEN Outcome(Threw(frag.result.error), frag.calls)          \* or_throw()
        ELSE IF vert.result.kind = "err"
        THEN Outcome(Threw(vert.result.error),                     \* or_throw()
                     frag.calls \o vert.calls \o <<Destroyed("fragment_module")>>)
        ELSE IF answers.pipeline # VK_SUCCESS
        THEN Outcome(Returned(Err(vulkan_error("Failed to create graphics pipeline",
                                               answers.pipeline))),
                     frag.calls \o vert.calls
                         \o <<Destroyed("vertex_module"), Destroyed("fragment_module")>>)
        ELSE Outcome(Returned(Ok("pipeline")),
                     frag.calls \o vert.calls \o <<Created("pipeline")>>
                         \o <<Destroyed("vertex_module"), Destroyed("fragment_module")>>)

\* m_layout(VK_NULL_HANDLE), m_render_pass(VK_NULL_HANDLE); m_pipeline has
\* no initialiser and is assigned before it is read
NewPipeline ==
    [m_layout |-> VK_NULL_HANDLE, m_render_pass |-> VK_NULL_HANDLE,
     m_pipeline |-> VK_NULL_HANDLE]

InitPipeline ==
    /\ drv \in PipelineAnswers
    /\ ret = NewPipeline
    /\ pc = "layout"
    /\ calls = <<>>
    /\ exception = NoException
    /\ ndebug \in BOOLEAN
    /\ log = <<>>
    /\ arg = NoValue
    /\ inst = 0
    /\ path = [ctor |-> "none", physical |-> 0]
    /\ dev = NewDevice(0)
    /\ selectRes = NotCalled
    /\ kept = <<>>
    /\ indices = UnresolvedIndices
    /\ createInfo = NoCreateInfo
    /\ scores = <<>>

pipelineFrame == <<drv, ndebug, path, selectRes, kept, dev, indices, createInfo,
                   scores, inst, arg>>

\* m_layout = create_pipeline_layout().or_throw()
CreatePipelineLayout ==
    /\ pc = "layout"
    /\ LET out == create_pipeline_layout(drv)
       IN  /\ calls' = calls \o out.calls
           /\ IF out.result.kind = "err"
              THEN /\ exception' = out.result.error
                   /\ pc' = "thrown"
                   /\ ret' = ret
              ELSE /\ ret' = [ret EXCEPT !.m_layout = out.result.value]
                   /\ pc' = "render_pass"
                   /\ exception' = exception
    /\ UNCHANGED log
    /\ UNCHANGED pipelineFrame

\* m_render_pass = create_simple_render_pass().or_throw()
CreateRenderPass ==
    /\ pc = "render_pass"
    /\ LET out == create_simple_render_pass(drv)
       IN  /\ calls' = calls \o out.calls
           /\ IF out.result.kind = "err"
              THEN /\ exception' = out.result.error
                   /\ pc' = "thrown"
                   /\ ret' = ret
              ELSE /\ ret' = [ret EXCEPT !.m_render_pass = out.result.value]
                   /\ pc' = "pipeline"
                   /\ exception' = exception
    /\ UNCHANGED log
    /\ UNCHANGED pipelineFrame

\* m_pipeline = create_pipeline(module_paths, settings).or_throw()
CreateGraphicsPipeline ==
    /\ pc = "pipeline"
    /\ LET out == create_pipeline(drv)
       IN  /\ calls' = calls \o out.calls
           /\ IF out.result.threw
              THEN /\ exception' = out.result.exception
                   /\ pc' = "thrown"
                   /\ UNCHANGED <<ret, log>>
              ELSE IF out.result.value.kind = "err"
              THEN /\ exception' = out.result.value.error
                   /\ pc' = "thrown"
                   /\ UNCHANGED <<ret, log>>
              ELSE /\ ret' = [ret EXCEPT !.m_pipeline = out.result.value.value]
                   /\ pc' = "constructed"
                   /\ exception' = exception
                   /\ log' = log \o SPDLOG("trace", ndebug, "pipeline",
                                           "Created vulkan pipeline.")
    /\ UNCHANGED pipelineFrame

\* ~vulkan_pipeline(): runs for an object whose constructor completed
DestroyPipeline ==
    /\ pc = "constructed"
    /\ calls' = calls
                  \o (IF ret.m_pipeline # VK_NULL_HANDLE
                      THEN <<Destroyed(ret.m_pipeline)>> ELSE <<>>)
                  \o (IF ret.m_layout # VK_NULL_HANDLE
                      THEN <<Destroyed(ret.m_layout)>> ELSE <<>>)
                  \o (IF ret.m_render_pass # VK_NULL_HANDLE
                      THEN <<Destroyed(ret.m_render_pass)>> ELSE <<>>)
    /\ pc' = "destroyed"
    /\ UNCHANGED <<ret, exception, log>>
    /\ UNCHANGED pipelineFrame

NextPipeline ==
    \/ CreatePipelineLayout
    \/ CreateRenderPass
    \/ CreateGraphicsPipeline
    \/ DestroyPipeline

SpecPipeline == InitPipeline /\ [][NextPipeline]_vars

ObjectsCreated == {calls[k].object : k \in {n \in 1..Len(calls) : calls[n].op = "create"}}

ObjectsDestroyed == {calls[k].object : k \in {n \in 1..Len(calls) : calls[n].op = "destroy"}}

\* C29: the construction of a vulkan_pipeline leaks no driver object: when an
\* error leaves the constructor, whichever step failed, every object the
\* earlier steps created (pipeline layout, render pass, shader modules) has
\* been destroyed; the shader modules are destroyed when the construction
\* succeeds as well.
C29_NoLeakOnFailedConstruction ==
    /\ pc = "thrown" => ObjectsCreated \subseteq ObjectsDestroyed
    /\ pc = "constructed" =>
           {"fragment_module", "vertex_module"} \subseteq ObjectsDestroyed

=============================================================================
